---- MODULE Spec2Model ----
(***************************************************************************)
(* Model of the temp-mail panel (src/main.py): the SQLite store (sessions, *)
(* messages, archives), the in-memory registry active_sessions, the mail   *)
(* gateway client and the Flask request handlers, run by concurrent        *)
(* request workers.                                                        *)
(*                                                                         *)
(* Strings are sequences of one-token strings.  A digest (sha256/md5       *)
(* hexdigest, truncated) is modelled as the digested string itself, i.e.   *)
(* as collision free on distinct inputs; the string that is digested is    *)
(* built as the code builds it.  The messages table is a sequence in rowid *)
(* order (a new row gets the largest rowid, so an INSERT appends).         *)
(***************************************************************************)
EXTENDS Integers, Sequences, FiniteSets, TLC

\* ---------------------------------------------------------------- bounds
MaxTime == 1        \* the clock datetime.utcnow() takes values 0..MaxTime
MaxBatch == 2       \* longest messages list the gateway returns
MaxRows == 2        \* the gateway stops delivering once the table has MaxRows rows
MaxListed == 3      \* ... or MaxListed rows, where the listing is what is examined
MaxSessions == 2    \* no address is requested once the store knows MaxSessions sessions

Workers == {"w1", "w2"}
NoWorker == "none"

\* ---------------------------------------------------------------- strings
Whitespace == {" ", "\n"}

RECURSIVE LStrip(_)
LStrip(s) == IF s # <<>> /\ Head(s) \in Whitespace THEN LStrip(Tail(s)) ELSE s

RECURSIVE RStrip(_)
RStrip(s) ==
    IF s # <<>> /\ s[Len(s)] \in Whitespace THEN RStrip(SubSeq(s, 1, Len(s) - 1)) ELSE s

\* str.strip()
Strip(s) == RStrip(LStrip(s))

\* str.split('\n'): the segments between the separators, always at least one
RECURSIVE Split(_, _)
Split(s, sep) ==
    IF \A i \in 1..Len(s) : s[i] # sep
    THEN <<s>>
    ELSE LET k == CHOOSE i \in 1..Len(s) : s[i] = sep /\ \A j \in 1..(i - 1) : s[j] # sep
         IN  <<SubSeq(s, 1, k - 1)>> \o Split(SubSeq(s, k + 1, Len(s)), sep)

\* str.replace('NEW', ''): the marker is one token
ReplaceNEW(s) == SelectSeq(s, LAMBDA c : c # "NEW")

\* datetime.isoformat()
IsoFormat(t) == <<ToString(t)>>

\* ---------------------------------------------------------------- raw messages
\* A raw gateway message: kind "str" (text in blob), kind "dict" (keys lists
\* the keys present), or any other JSON value (kind "other").  bindable is
\* FALSE when a field taken from a dict is not a value SQLite can bind.
RawDict(keys, sender, subject, preview, text, bindable) ==
    [kind |-> "dict", keys |-> keys, sender |-> sender, subject |-> subject,
     preview |-> preview, text |-> text, blob |-> <<>>, bindable |-> bindable]

RawStr(blob) ==
    [kind |-> "str", keys |-> {}, sender |-> <<>>, subject |-> <<>>,
     preview |-> <<>>, text |-> <<>>, blob |-> blob, bindable |-> TRUE]

MsgDictABC == RawDict({"sender", "subject", "preview"}, <<"a">>, <<"b">>, <<"c">>, <<>>, TRUE)
MsgBlobABC == RawStr(<<"NEW", " ", "a", "\n", "x", "\n", " ", "b", "\n", "c", "\n">>)
MsgTextOnly == RawDict({"text"}, <<>>, <<>>, <<>>, <<"h", "i">>, TRUE)
MsgUnbindable == RawDict({"sender", "subject"}, <<"z">>, <<"b">>, <<>>, <<>>, FALSE)
\* a JSON object whose preview is a text of two lines
MsgTwoLines == RawDict({"sender", "subject", "preview"}, <<"a">>, <<"b">>, <<"c", "\n", "d">>, <<>>, TRUE)

RawMessages == {MsgDictABC, MsgBlobABC, MsgTextOnly, MsgUnbindable}

\* str(msg)
Repr(msg) == IF msg.kind = "str" THEN msg.blob
             ELSE <<"{">> \o msg.sender \o msg.subject \o msg.preview \o msg.text \o <<"}">>

\* store_messages_in_db, lines 214-232: best-effort field extraction
ExtractFields(msg) ==
    LET lines == Split(Strip(msg.blob), "\n")
        isBlob == msg.kind = "str" /\ Len(lines) >= 3
        isDict == msg.kind = "dict"
    IN  [sender |-> IF isBlob THEN Strip(ReplaceNEW(lines[1]))
                    ELSE IF isDict /\ "sender" \in msg.keys THEN msg.sender
                    ELSE <<"Unknown">>,
         subject |-> IF isBlob THEN Strip(lines[3])
                     ELSE IF isDict /\ "subject" \in msg.keys THEN msg.subject
                     ELSE <<"No Subject">>,
         body_preview |-> IF isBlob /\ Len(lines) > 3 THEN Strip(lines[4])
                          ELSE IF isDict /\ "preview" \in msg.keys THEN msg.preview
                          ELSE <<"No preview">>,
         full_content |-> IF isDict /\ "text" \in msg.keys THEN msg.text ELSE Repr(msg)]

\* ---------------------------------------------------------------- state
VARIABLES
    now,              \* datetime.utcnow()
    db,               \* committed content of temp_mail.db: [sessions, messages]
    tx,               \* the open write transaction: [owner, sessions, messages]
    active_sessions,  \* the registry: session_id -> TempMailSession handle
    pc,               \* per worker: position in the request handler it runs
    loc,              \* per worker: the handler's locals and its response
    test              \* the notes of a client that runs a fixed sequence of requests

vars == <<now, db, tx, active_sessions, pc, loc, test>>

EmptyDb == [sessions |-> <<>>, messages |-> <<>>]
NoTx == [owner |-> NoWorker, sessions |-> <<>>, messages |-> <<>>]

\* what a connection of worker w reads: its own uncommitted writes, else the
\* committed content
View(w) == IF tx.owner = w THEN [sessions |-> tx.sessions, messages |-> tx.messages]
           ELSE db

\* a writing statement takes SQLite's RESERVED lock
CanWrite(w) == tx.owner \in {NoWorker, w}
Locked(w) == ~CanWrite(w)

\* conn.commit(): publishes the transaction, a no-op when none is open
Committed(w) == IF tx.owner = w THEN [sessions |-> tx.sessions, messages |-> tx.messages]
                ELSE db

\* ---------------------------------------------------------------- tables
\* the rows of a table (a sequence) as a set
Rows(table) == {table[i] : i \in 1..Len(table)}

SessionRow(session_id, email, created_at, last_activity, is_active) ==
    [session_id |-> session_id, email |-> email, created_at |-> created_at,
     last_activity |-> last_activity, is_active |-> is_active]

MessageRow(message_id, session_id, sender, recipient, subject, body_preview, full_content, received_at, is_read) ==
    [message_id |-> message_id, session_id |-> session_id, sender |-> sender,
     recipient |-> recipient, subject |-> subject, body_preview |-> body_preview,
     full_content |-> full_content, received_at |-> received_at, is_read |-> is_read]

\* INSERT OR REPLACE INTO sessions: a row with the same primary key is deleted first
InsertOrReplaceSession(sessions, row) ==
    Append(SelectSeq(sessions, LAMBDA r : r.session_id # row.session_id), row)

\* SELECT message_id FROM messages WHERE message_id = ?
MessageExists(messages, message_id) == \E r \in Rows(messages) : r.message_id = message_id

\* a messages table without the PRIMARY KEY constraint
InsertMessageNeverFails(messages, row) == FALSE

\* INSERT INTO messages: the PRIMARY KEY constraint of line 33 rejects a second row
\* with the same message_id
InsertMessageFails(messages, row) ==
    \E r \in Rows(messages) : r.message_id = row.message_id

InsertMessage(messages, row) == Append(messages, row)

SessionIds(sessions) == {r.session_id : r \in Rows(sessions)}

\* an identifier that also digests the number of rows stored so far
MessageIdPerRow(sender, subject, body_preview, received_time) ==
    sender \o subject \o body_preview \o IsoFormat(received_time)
        \o <<ToString(Len(db.messages) + Len(tx.messages))>>

\* store_messages_in_db, line 235: the digested string
MessageId(sender, subject, body_preview, received_time) ==
    sender \o subject \o body_preview \o IsoFormat(received_time)

\* ---------------------------------------------------------------- registry
\* A TempMailSession object.  oid is the object's identity: copies of a handle
\* with the same oid (in the registry, in a handler's self) are one object.
Handle(oid, email, session_id, t) ==
    [oid |-> oid, email |-> email, session_id |-> session_id, created_at |-> t,
     last_check |-> t, is_active |-> TRUE]

NoHandle == [oid |-> 0, email |-> <<>>, session_id |-> <<>>, created_at |-> 0,
             last_check |-> 0, is_active |-> FALSE]

UsedOids == {active_sessions[s].oid : s \in DOMAIN active_sessions}
                \cup {loc[w].self.oid : w \in Workers}

\* an identity no live object has
FreshOid == CHOOSE n \in 1..(Cardinality(UsedOids) + 1) : n \notin UsedOids

\* del active_sessions[session_id]
DelKey(registry, session_id) ==
    [s \in DOMAIN registry \ {session_id} |-> registry[s]]

\* active_sessions[session_id] = handle
SetKey(registry, session_id, handle) ==
    [s \in DOMAIN registry \cup {session_id} |->
        IF s = session_id THEN handle ELSE registry[s]]

\* ---------------------------------------------------------------- locals
NoRow == MessageRow(<<>>, <<>>, <<>>, <<>>, <<>>, <<>>, <<>>, 0, 0)

NoResp == [kind |-> "none"]

NoStats == [total |-> 0, unread |-> 0, first_msg |-> -1, last_msg |-> -1]

NoTest == [phase |-> "none"]

\* What get_inbox returns, as far as its caller can tell: whether the dict has a
\* messages key and whether the list under it is empty, and the status that
\* get_inbox itself puts in.
RawData(messages, status) == [messages |-> messages, status |-> status]

NoRawData == RawData("absent", "none")

InitLoc ==
    [op |-> "none", email |-> <<>>, session_id |-> <<>>, message_id |-> <<>>,
     self |-> NoHandle, messages |-> <<>>, row |-> NoRow, raw_data |-> NoRawData,
     posts |-> 0, params |-> 0,
     limit |-> 0, offset |-> 0, unread_only |-> FALSE, listing |-> <<>>, total |-> 0,
     prefix |-> <<>>, prefix_given |-> FALSE, i |-> 0, fallback |-> FALSE,
     keys |-> {}, todo |-> {}, stats |-> NoStats, obtained |-> <<>>,
     cutoff |-> 0, inactive_sessions |-> <<>>, found |-> <<>>, member |-> FALSE,
     batch |-> <<>>, failed |-> {}, inserted |-> {},
     format_type |-> "",
     resp |-> NoResp]

Goto(w, label, l) ==
    /\ pc' = [pc EXCEPT ![w] = label]
    /\ loc' = [loc EXCEPT ![w] = l]

\* the handler returns resp: the request is over
Respond(w, resp) == Goto(w, "done", [loc[w] EXCEPT !.resp = resp])

\* an exception leaves the handler: Flask answers 500
Crash(w, error) == Respond(w, [kind |-> "crash", error |-> error])

Failure(error) == [kind |-> "fail", success |-> FALSE, error |-> error]

\* ---------------------------------------------------------------- requests
StrangerEmail == <<"q", "@", "g">>
StrangerId == <<"q">>

\* what a caller may send as (email, session_id): a pair it was given by generate
KnownSessions ==
    {[email |-> r.email, session_id |-> r.session_id] : r \in Rows(db.sessions)}

\* ... or a body that lacks a field
Incomplete == {[email |-> StrangerEmail, session_id |-> <<>>],
               [email |-> <<>>, session_id |-> StrangerId]}

\* ... or any other pair: no request checks that the session exists
Strangers == {[email |-> StrangerEmail, session_id |-> StrangerId],
              [email |-> <<"v", "@", "g">>, session_id |-> <<"v">>]}

RECURSIVE SeqsUpTo(_, _)
SeqsUpTo(S, n) ==
    IF n = 0 THEN {<<>>}
    ELSE SeqsUpTo(S, n - 1) \cup
         {Append(q, x) : q \in {r \in SeqsUpTo(S, n - 1) : Len(r) = n - 1}, x \in S}

RECURSIVE SumLen(_)
SumLen(S) == IF S = {} THEN 0
             ELSE LET w == CHOOSE v \in S : TRUE
                  IN  Len(loc[w].messages) + SumLen(S \ {w})

Max(a, b) == IF a >= b THEN a ELSE b

\* rows the store holds or may still get from the batches being ingested
RowBudget == Max(Len(db.messages), Len(tx.messages))
                + SumLen(Workers)

\* the messages lists the gateway may return, of the raw messages raws, while the
\* store holds less than cap rows
Batches(raws, cap) == {b \in SeqsUpTo(raws, MaxBatch) : RowBudget + Len(b) <= cap}

\* ---------------------------------------------------------------- check inbox
\* a check-inbox that looks the handle up without the membership test
CheckInboxRequestUnguarded(w, inputs) ==
    /\ pc[w] = "idle"
    /\ \E req \in inputs :
         Goto(w, "ci_lookup", [loc[w] EXCEPT !.op = "check_inbox", !.email = req.email,
                                             !.session_id = req.session_id])
    /\ UNCHANGED <<test, now, db, tx, active_sessions>>

\* check_inbox_endpoint, lines 2345-2353: input check and the membership test
CheckInboxRequest(w, inputs) ==
    /\ pc[w] = "idle"
    /\ \E req \in inputs :
         LET l == [loc[w] EXCEPT !.op = "check_inbox", !.email = req.email,
                                 !.session_id = req.session_id]
         IN  IF req.email = <<>> \/ req.session_id = <<>>
             THEN Goto(w, "done", [l EXCEPT !.resp = Failure("Missing data")])
             ELSE IF req.session_id \in DOMAIN active_sessions
                  THEN Goto(w, "ci_lookup", l)
                  ELSE Goto(w, "ci_fetch", l)
    /\ UNCHANGED <<test, now, db, tx, active_sessions>>

\* an attribute of the object oid is assigned: every copy of the object changes
RegistryWith(oid, h) ==
    [s \in DOMAIN active_sessions |->
        IF active_sessions[s].oid = oid THEN h ELSE active_sessions[s]]

LocalsWith(oid, h) ==
    [v \in Workers |-> IF loc[v].self.oid = oid THEN [loc[v] EXCEPT !.self = h] ELSE loc[v]]

\* line 2354, active_sessions[session_id], and update_activity, line 84.
\* loc.params is the time this thread has assigned: what it reads back from the
\* object when it builds the parameters of line 88, unless another thread has
\* assigned the attribute of the shared object in between.
CheckInboxLookup(w) ==
    /\ pc[w] = "ci_lookup"
    /\ IF loc[w].session_id \notin DOMAIN active_sessions
       THEN /\ Crash(w, "KeyError")
            /\ UNCHANGED active_sessions
       ELSE LET h == active_sessions[loc[w].session_id]
                touched == [h EXCEPT !.last_check = now]
            IN  /\ active_sessions' = RegistryWith(h.oid, touched)
                /\ loc' = [LocalsWith(h.oid, touched) EXCEPT ![w].self = touched,
                                                             ![w].params = now]
                /\ pc' = [pc EXCEPT ![w] = "ci_update"]
    /\ UNCHANGED <<test, now, db, tx>>

\* TempMailSession.update_activity, lines 85-90: one statement and its commit
UpdateActivity(sessions, self, last_check) ==
    [i \in 1..Len(sessions) |->
        IF sessions[i].session_id = self.session_id
        THEN [sessions[i] EXCEPT !.last_activity = last_check]
        ELSE sessions[i]]

\* The parameters (self.last_check, self.session_id) are built before execute is
\* called: the time bound is the one this thread assigned, or the one another
\* thread assigned to the same object before the parameters were built.
CheckInboxUpdate(w) ==
    /\ pc[w] = "ci_update"
    /\ \/ /\ CanWrite(w)
          /\ \E last_check \in {loc[w].params, loc[w].self.last_check} :
                db' = [db EXCEPT !.sessions =
                          UpdateActivity(db.sessions, loc[w].self, last_check)]
          /\ Goto(w, "ci_fetch", [loc[w] EXCEPT !.self = NoHandle, !.params = 0])
       \/ /\ Locked(w)
          /\ Crash(w, "database is locked")
          /\ UNCHANGED db
    /\ UNCHANGED <<test, now, tx, active_sessions>>

DefaultLimit == 50

\* get_session_messages is entered with these arguments
Listing(l, limit, offset, unread_only) ==
    [l EXCEPT !.limit = limit, !.offset = offset, !.unread_only = unread_only]

\* a get_inbox that lets the failure of the request out
CheckInboxFetchRaising(w, raws, cap) ==
    /\ pc[w] = "ci_fetch"
    /\ Crash(w, "ConnectionError")
    /\ UNCHANGED <<test, now, db, tx, active_sessions>>

\* get_inbox, lines 187-207: the one request to the gateway (posts counts the
\* calls of requests.post) and what comes back
CheckInboxFetch(w, raws, cap) ==
    /\ pc[w] = "ci_fetch"
    /\ LET l == [loc[w] EXCEPT !.posts = @ + 1]
       IN  \/ \* status_code != 200, line 196, or an exception, line 207
              Goto(w, "lm_rows",
                   Listing([l EXCEPT !.raw_data = RawData("empty", "error")],
                           DefaultLimit, 0, TRUE))
           \/ \* a body without a messages key
              Goto(w, "done",
                   [l EXCEPT !.raw_data = RawData("absent", "none"),
                             !.resp = [kind |-> "ok", success |-> TRUE, new_count |-> 0,
                                       status |-> "no_messages"]])
           \/ \E b \in Batches(raws, cap) :
                IF b = <<>>
                THEN Goto(w, "lm_rows",
                          Listing([l EXCEPT !.raw_data = RawData("empty", "none")],
                                  DefaultLimit, 0, TRUE))
                ELSE Goto(w, "sm_select",
                          [l EXCEPT !.raw_data = RawData("some", "none"),
                                    !.messages = b, !.batch = b])
    /\ UNCHANGED <<test, now, db, tx, active_sessions>>

\* ---------------------------------------------------------------- ingestion
\* The loop of store_messages_in_db consumes loc.messages; loc.batch keeps the list
\* it was called with, loc.failed the positions of the messages whose processing
\* raised (lines 246-248), loc.inserted the positions and identifiers of the
\* messages whose INSERT was executed; the three are dropped when the function
\* is left.
Position(w) == Len(loc[w].batch) - Len(loc[w].messages) + 1

Skipped(w) == [loc[w] EXCEPT !.failed = @ \cup {Position(w)}]

Inserted(w) ==
    [loc[w] EXCEPT !.inserted = @ \cup {[position |-> Position(w),
                                         message_id |-> loc[w].row.message_id]}]

Left(w) == [loc[w] EXCEPT !.batch = <<>>, !.failed = {}, !.inserted = {}]

\* the loop of store_messages_in_db goes on with the next message, or ends
NextMessage(w, l) ==
    LET rest == [l EXCEPT !.messages = Tail(@), !.row = NoRow]
    IN  IF rest.messages = <<>> THEN Goto(w, "sm_commit", rest)
        ELSE Goto(w, "sm_select", rest)

\* store_messages_in_db, lines 214-239: fields, arrival time, identifier, lookup
StoreSelect(w) ==
    /\ pc[w] = "sm_select"
    /\ LET msg == Head(loc[w].messages)
           f == ExtractFields(msg)
           received_time == now
           msg_id == MessageId(f.sender, f.subject, f.body_preview, received_time)
           row == MessageRow(msg_id, loc[w].session_id, f.sender, loc[w].email,
                             f.subject, f.body_preview, f.full_content, received_time, 0)
       IN  IF MessageExists(View(w).messages, msg_id)
           THEN NextMessage(w, loc[w])
           ELSE Goto(w, "sm_insert", [loc[w] EXCEPT !.row = row])
    /\ UNCHANGED <<test, now, db, tx, active_sessions>>

\* the INSERT written as INSERT OR REPLACE
StoreInsertOrReplace(w) ==
    /\ pc[w] = "sm_insert"
    /\ \/ /\ ~Head(loc[w].messages).bindable
          /\ UNCHANGED tx
       \/ /\ Head(loc[w].messages).bindable
          /\ Locked(w)
          /\ UNCHANGED tx
       \/ /\ Head(loc[w].messages).bindable
          /\ CanWrite(w)
          /\ tx' = [owner |-> w, sessions |-> View(w).sessions,
                    messages |-> InsertMessage(
                        SelectSeq(View(w).messages,
                               LAMBDA r : r.message_id # loc[w].row.message_id),
                        loc[w].row)]
    /\ NextMessage(w, loc[w])
    /\ UNCHANGED <<test, now, db, active_sessions>>

\* an INSERT that is committed at once
StoreInsertAutocommit(w) ==
    /\ pc[w] = "sm_insert"
    /\ \/ /\ ~Head(loc[w].messages).bindable
          /\ UNCHANGED db
          /\ NextMessage(w, Skipped(w))
       \/ /\ Head(loc[w].messages).bindable
          /\ InsertMessageFails(db.messages, loc[w].row)
          /\ UNCHANGED db
          /\ NextMessage(w, Skipped(w))
       \/ /\ Head(loc[w].messages).bindable
          /\ ~InsertMessageFails(db.messages, loc[w].row)
          /\ db' = [db EXCEPT !.messages = InsertMessage(db.messages, loc[w].row)]
          /\ NextMessage(w, Inserted(w))
    /\ UNCHANGED <<test, now, tx, active_sessions>>

\* a failure of one message ends the loop
StoreInsertOrStop(w) ==
    /\ pc[w] = "sm_insert"
    /\ \/ /\ \/ ~Head(loc[w].messages).bindable
             \/ Locked(w)
             \/ InsertMessageFails(View(w).messages, loc[w].row)
          /\ UNCHANGED tx
          /\ Goto(w, "sm_commit", [Skipped(w) EXCEPT !.messages = <<>>, !.row = NoRow])
       \/ /\ Head(loc[w].messages).bindable
          /\ CanWrite(w)
          /\ ~InsertMessageFails(View(w).messages, loc[w].row)
          /\ tx' = [owner |-> w, sessions |-> View(w).sessions,
                    messages |-> InsertMessage(View(w).messages, loc[w].row)]
          /\ NextMessage(w, Inserted(w))
    /\ UNCHANGED <<test, now, db, active_sessions>>

\* store_messages_in_db, lines 240-248: the INSERT, and the except that skips
StoreInsert(w) ==
    /\ pc[w] = "sm_insert"
    /\ \/ \* a value SQLite cannot bind
          /\ ~Head(loc[w].messages).bindable
          /\ UNCHANGED tx
          /\ NextMessage(w, Skipped(w))
       \/ \* the write lock is not obtained within the busy timeout
          /\ Head(loc[w].messages).bindable
          /\ Locked(w)
          /\ UNCHANGED tx
          /\ NextMessage(w, Skipped(w))
       \/ \* sqlite3.IntegrityError
          /\ Head(loc[w].messages).bindable
          /\ CanWrite(w)
          /\ InsertMessageFails(View(w).messages, loc[w].row)
          /\ UNCHANGED tx
          /\ NextMessage(w, Skipped(w))
       \/ /\ Head(loc[w].messages).bindable
          /\ CanWrite(w)
          /\ ~InsertMessageFails(View(w).messages, loc[w].row)
          /\ tx' = [owner |-> w, sessions |-> View(w).sessions,
                    messages |-> InsertMessage(View(w).messages, loc[w].row)]
          /\ NextMessage(w, Inserted(w))
    /\ UNCHANGED <<test, now, db, active_sessions>>

\* the handler is ended inside store_messages_in_db by what `except Exception`
\* does not catch (the server ending the worker): closing() closes the connection,
\* line 250 is not reached, the open transaction is rolled back
StoreAbort(w) ==
    /\ pc[w] \in {"sm_select", "sm_insert", "sm_commit"}
    /\ tx' = IF tx.owner = w THEN NoTx ELSE tx
    /\ Goto(w, "done", [Left(w) EXCEPT !.resp = [kind |-> "crash", error |-> "aborted"]])
    /\ UNCHANGED <<test, now, db, active_sessions>>

\* store_messages_in_db, line 250
StoreCommit(w) ==
    /\ pc[w] = "sm_commit"
    /\ db' = Committed(w)
    /\ tx' = IF tx.owner = w THEN NoTx ELSE tx
    /\ Goto(w, "lm_rows", Listing(Left(w), DefaultLimit, 0, TRUE))
    /\ UNCHANGED <<test, now, active_sessions>>

\* ---------------------------------------------------------------- listing
\* ORDER BY received_at DESC: SQLite's sorter keeps rows with equal keys in
\* scan (rowid) order
RECURSIVE InsertDesc(_, _)
InsertDesc(sorted, r) ==
    IF sorted = <<>> THEN <<r>>
    ELSE IF Head(sorted).received_at >= r.received_at
         THEN <<Head(sorted)>> \o InsertDesc(Tail(sorted), r)
         ELSE <<r>> \o sorted

RECURSIVE OrderByReceivedDesc(_)
OrderByReceivedDesc(table) ==
    IF table = <<>> THEN <<>>
    ELSE InsertDesc(OrderByReceivedDesc(SubSeq(table, 1, Len(table) - 1)),
                    table[Len(table)])

\* a page that starts one row late
LimitOffsetLate(rows, limit, offset) ==
    SubSeq(rows, Max(offset, 0) + 2,
           IF limit < 0 \/ Max(offset, 0) + limit + 1 > Len(rows)
           THEN Len(rows) ELSE Max(offset, 0) + limit + 1)

\* LIMIT ? OFFSET ?: a negative limit is no limit, a negative offset is 0
LimitOffset(rows, limit, offset) ==
    LET first == Max(offset, 0) + 1
        last == IF limit < 0 THEN Len(rows) ELSE Max(offset, 0) + limit
    IN  SubSeq(rows, first, IF last > Len(rows) THEN Len(rows) ELSE last)

\* get_session_messages, lines 255-283
SelectMessages(messages, session_id, limit, offset, unread_only) ==
    LET matching == SelectSeq(messages,
                       LAMBDA r : r.session_id = session_id /\ (unread_only => r.is_read = 0))
        page == LimitOffset(OrderByReceivedDesc(matching), limit, offset)
    IN  [i \in 1..Len(page) |->
            [id |-> page[i].message_id, sender |-> page[i].sender,
             recipient |-> page[i].recipient, subject |-> page[i].subject,
             preview |-> page[i].body_preview, content |-> page[i].full_content,
             time |-> page[i].received_at, is_read |-> page[i].is_read # 0]]

\* SELECT COUNT(*) FROM messages WHERE session_id = ?, line 286
CountMessages(messages, session_id) ==
    Len(SelectSeq(messages, LAMBDA r : r.session_id = session_id))

\* the unread messages of all sessions
CountUnreadOfAll(messages, session_id) ==
    Len(SelectSeq(messages, LAMBDA r : r.is_read = 0))

\* SELECT COUNT(*) ... AND is_read = 0, line 289
CountUnread(messages, session_id) ==
    Len(SelectSeq(messages, LAMBDA r : r.session_id = session_id /\ r.is_read = 0))

\* has_more also when the page ends with the last row
HasMoreInclusive(total, offset, limit) == total >= (offset + limit)

\* line 296
HasMore(total, offset, limit) == total > (offset + limit)

\* ---------------------------------------------------------------- export
\* export_messages, line 321
ExportCap == 1000

\* csv.writer with the default dialect: delimiter ",", quotechar '"', doublequote,
\* QUOTE_MINIMAL, lineterminator "\r\n"
CsvSpecial == {",", "\"", "\n", "\r"}

RECURSIVE DoubleQuotes(_)
DoubleQuotes(s) ==
    IF s = <<>> THEN <<>>
    ELSE (IF Head(s) = "\"" THEN <<"\"", "\"">> ELSE <<Head(s)>>) \o DoubleQuotes(Tail(s))

\* a field is written as it is, or between quotes when it holds a special character
CsvField(s) ==
    IF \E i \in 1..Len(s) : s[i] \in CsvSpecial
    THEN <<"\"">> \o DoubleQuotes(s) \o <<"\"">>
    ELSE s

RECURSIVE JoinFields(_, _)
JoinFields(fields, sep) ==
    IF fields = <<>> THEN <<>>
    ELSE IF Len(fields) = 1 THEN fields[1]
    ELSE fields[1] \o <<sep>> \o JoinFields(Tail(fields), sep)

\* writer.writerow
CsvRow(fields) ==
    JoinFields([i \in 1..Len(fields) |-> CsvField(fields[i])], ",") \o <<"\r\n">>

\* export_messages, line 329
CsvHeader == <<<<"Sender">>, <<"Recipient">>, <<"Subject">>, <<"Preview">>,
               <<"Received At">>, <<"Read">>>>

\* export_messages, lines 331-338: the time is the text the store keeps
CsvFields(msg) ==
    <<msg.sender, msg.recipient, msg.subject, msg.preview, IsoFormat(msg.time),
      IF msg.is_read THEN <<"Yes">> ELSE <<"No">>>>

RECURSIVE CsvRows(_)
CsvRows(messages) ==
    IF messages = <<>> THEN <<>>
    ELSE CsvRow(CsvFields(Head(messages))) \o CsvRows(Tail(messages))

\* export_messages, lines 341-349
TxtLines(msg) ==
    <<<<"From: ">> \o msg.sender, <<"To: ">> \o msg.recipient,
      <<"Subject: ">> \o msg.subject, <<"Time: ">> \o IsoFormat(msg.time),
      <<"Preview: ">> \o msg.preview, <<"--------------------------------------------------">>>>

RECURSIVE AllTxtLines(_)
AllTxtLines(messages) ==
    IF messages = <<>> THEN <<>>
    ELSE TxtLines(Head(messages)) \o AllTxtLines(Tail(messages))

\* json.dumps(messages, indent=2, default=str), line 325: a list of objects,
\* each one with the eight keys of a listed message
RECURSIVE JsonObjects(_)
JsonObjects(messages) ==
    IF messages = <<>> THEN <<>>
    ELSE LET m == Head(messages)
         IN  <<"{", "id:">> \o m.id \o <<"sender:">> \o m.sender
                \o <<"recipient:">> \o m.recipient \o <<"subject:">> \o m.subject
                \o <<"preview:">> \o m.preview \o <<"content:">> \o m.content
                \o <<"time:">> \o IsoFormat(m.time)
                \o <<"is_read:", IF m.is_read THEN "true" ELSE "false", "}">>
                \o JsonObjects(Tail(messages))

\* export_messages, lines 324-350
ExportMessages(messages, format_type) ==
    IF format_type = "json" THEN <<"[">> \o JsonObjects(messages) \o <<"]">>
    ELSE IF format_type = "csv" THEN CsvRow(CsvHeader) \o CsvRows(messages)
    ELSE IF format_type = "txt" THEN JoinFields(AllTxtLines(messages), "\n")
    ELSE <<>>

\* export_messages_endpoint, lines 2613-2617
MimeType(format_type) ==
    IF format_type = "json" THEN "application/json"
    ELSE IF format_type = "csv" THEN "text/csv"
    ELSE "text/plain"

Formats == {"json", "csv", "txt", "xml"}

\* export_messages_endpoint, lines 2601-2609, and export_messages, line 321
ExportRequest(w, inputs, formats) ==
    /\ pc[w] = "idle"
    /\ \E req \in inputs, format_type \in formats :
         LET l == [loc[w] EXCEPT !.op = "export", !.session_id = req.session_id,
                                 !.format_type = format_type]
         IN  IF req.session_id = <<>>
             THEN Goto(w, "done", [l EXCEPT !.resp = Failure("Missing session ID")])
             ELSE Goto(w, "lm_rows", Listing(l, ExportCap, 0, FALSE))
    /\ UNCHANGED <<test, now, db, tx, active_sessions>>

\* check_inbox_endpoint reads only the unread count of the result (line 2365): the
\* page and the total it discards are not kept
ListRows(w) ==
    /\ pc[w] = "lm_rows"
    /\ Goto(w, "lm_total",
            IF loc[w].op = "check_inbox" THEN loc[w]
            ELSE [loc[w] EXCEPT !.listing = SelectMessages(db.messages, loc[w].session_id,
                                          loc[w].limit, loc[w].offset, loc[w].unread_only)])
    /\ UNCHANGED <<test, now, db, tx, active_sessions>>

ListTotal(w) ==
    /\ pc[w] = "lm_total"
    /\ Goto(w, "lm_unread",
            IF loc[w].op = "check_inbox" THEN loc[w]
            ELSE [loc[w] EXCEPT !.total = CountMessages(db.messages, loc[w].session_id)])
    /\ UNCHANGED <<test, now, db, tx, active_sessions>>

\* the last SELECT of get_session_messages, its result, and what the caller
\* (check_inbox_endpoint, lines 2359-2367; get_messages_endpoint, lines 2386-2394;
\* export_messages_endpoint, lines 2611-2622) answers with it
ListUnread(w) ==
    /\ pc[w] = "lm_unread"
    /\ LET unread == CountUnread(db.messages, loc[w].session_id)
           has_more == HasMore(loc[w].total, loc[w].offset, loc[w].limit)
       IN  IF loc[w].op = "check_inbox"
           THEN Respond(w, [kind |-> "ok", success |-> TRUE, new_count |-> unread,
                            status |-> "ok"])
           ELSE IF loc[w].op = "export"
           THEN Respond(w, [kind |-> "ok", success |-> TRUE,
                            content |-> ExportMessages(loc[w].listing, loc[w].format_type),
                            format |-> loc[w].format_type,
                            mime_type |-> MimeType(loc[w].format_type)])
           ELSE Respond(w, [kind |-> "ok", success |-> TRUE, messages |-> loc[w].listing,
                            total |-> loc[w].total, unread |-> unread,
                            has_more |-> has_more])
    /\ UNCHANGED <<test, now, db, tx, active_sessions>>

\* ---------------------------------------------------------------- generate
Strategies == <<{1, 2, 3}, {2, 3}, {1}>>

\* the email field of the gateway's answer: an address, a text without "@", an
\* empty text, or a JSON value that is no text
GatewayNumber == <<"#123">>
GatewayEmails == {<<"u", "@", "g">>, <<"u", "@", "g", "@", "h">>, <<"n">>, <<>>,
                  GatewayNumber}
IsString(email) == email # GatewayNumber
RandomTokens == {<<"r">>}
Prefixes == {<<"p">>, <<>>}

\* generate_email_endpoint, lines 2321-2325
GenerateRequest(w, prefixes) ==
    /\ pc[w] = "idle"
    /\ Len(db.sessions) < MaxSessions
    /\ \/ Goto(w, "ge_try", [loc[w] EXCEPT !.op = "generate", !.i = 1])
       \/ \E p \in prefixes :
            Goto(w, "ge_try", [loc[w] EXCEPT !.op = "generate", !.i = 1, !.prefix = p,
                                             !.prefix_given = TRUE])
    /\ UNCHANGED <<test, now, db, tx, active_sessions>>

\* a request without the timeout of line 133: the gateway may never answer
GenerateTryNoTimeout(w, emails) ==
    /\ pc[w] = "ge_try"
    /\ \/ IF loc[w].i < Len(Strategies)
          THEN Goto(w, "ge_try", [loc[w] EXCEPT !.i = @ + 1])
          ELSE Goto(w, "ge_create", [loc[w] EXCEPT !.i = @ + 1])
       \/ \E e \in emails : Goto(w, "ge_create", [loc[w] EXCEPT !.email = e])
       \/ Goto(w, "ge_wait", loc[w])
    /\ UNCHANGED <<test, now, db, tx, active_sessions>>

\* generate_email, lines 127-141: one request variant.  requests.post has a
\* timeout (line 133): it returns or raises, it does not wait for ever.
GenerateTry(w, emails) ==
    /\ pc[w] = "ge_try"
    /\ \/ \* exception, status other than 200, or a body without email: the loop
          \* goes on with variant i + 1, or ends
          IF loc[w].i < Len(Strategies)
          THEN Goto(w, "ge_try", [loc[w] EXCEPT !.i = @ + 1])
          ELSE Goto(w, "ge_create", [loc[w] EXCEPT !.i = @ + 1])
       \/ \E e \in emails : Goto(w, "ge_create", [loc[w] EXCEPT !.email = e])
    /\ UNCHANGED <<test, now, db, tx, active_sessions>>

\* email.split('@', 1)
LocalPart(email) ==
    LET k == CHOOSE i \in 1..Len(email) : email[i] = "@" /\ \A j \in 1..(i - 1) : email[j] # "@"
    IN  SubSeq(email, 1, k - 1)

DomainPart(email) ==
    LET k == CHOOSE i \in 1..Len(email) : email[i] = "@" /\ \A j \in 1..(i - 1) : email[j] # "@"
    IN  SubSeq(email, k + 1, Len(email))

\* generate_email, lines 143-146
WithFallback(email, random_part) ==
    IF email = <<>> THEN random_part \o <<"@", "tempmail.tmp">> ELSE email

\* the prefix put behind the local part
ApplySuffix(email, custom_prefix) ==
    IF custom_prefix # <<>> /\ \E i \in 1..Len(email) : email[i] = "@"
    THEN LocalPart(email) \o <<"_">> \o custom_prefix \o <<"@">> \o DomainPart(email)
    ELSE email

\* generate_email, lines 149-151
ApplyPrefix(email, custom_prefix) ==
    IF custom_prefix # <<>> /\ \E i \in 1..Len(email) : email[i] = "@"
    THEN custom_prefix \o <<"_">> \o LocalPart(email) \o <<"@">> \o DomainPart(email)
    ELSE email

\* generate_email, line 154: the digested string
SessionId(email, t) == email \o IsoFormat(t)

\* a constructor that stores the session as inactive
CreateSessionInactive(sessions, self) ==
    InsertOrReplaceSession(sessions,
        SessionRow(self.session_id, self.email, self.created_at, self.created_at, 0))

\* TempMailSession.__init__, lines 74-79
CreateSession(sessions, self) ==
    InsertOrReplaceSession(sessions,
        SessionRow(self.session_id, self.email, self.created_at, self.created_at, 1))

\* generate_email, lines 143-157 up to the commit of TempMailSession.__init__; a
\* failing write goes to the handler of line 164
GenerateCreate(w) ==
    /\ pc[w] = "ge_create"
    /\ \E random_part \in RandomTokens :
         LET obtained == WithFallback(loc[w].email, random_part)
             email == ApplyPrefix(obtained, loc[w].prefix)
             self == Handle(FreshOid, email, SessionId(email, now), now)
         IN  \/ \* line 149, '@' in email, raises TypeError
                /\ loc[w].prefix # <<>> /\ ~IsString(obtained)
                /\ Goto(w, "ge_fallback", loc[w])
                /\ UNCHANGED db
             \/ /\ loc[w].prefix = <<>> \/ IsString(obtained)
                /\ CanWrite(w)
                /\ db' = [db EXCEPT !.sessions = CreateSession(db.sessions, self)]
                /\ Goto(w, "ge_install", [loc[w] EXCEPT !.email = email,
                                            !.obtained = obtained,
                                            !.session_id = self.session_id, !.self = self])
             \/ /\ loc[w].prefix = <<>> \/ IsString(obtained)
                /\ Locked(w)
                /\ Goto(w, "ge_fallback", loc[w])
                /\ UNCHANGED db
    /\ UNCHANGED <<test, now, tx, active_sessions>>

\* generate_email, lines 167-169, up to the commit of TempMailSession.__init__
GenerateFallback(w) ==
    /\ pc[w] = "ge_fallback"
    /\ \E token \in RandomTokens :
         LET fallback_email == <<"temp_">> \o IsoFormat(now) \o <<"_">> \o token
                                  \o <<"@", "fallback.tmp">>
             self == Handle(FreshOid, fallback_email, fallback_email, now)
         IN  \/ /\ CanWrite(w)
                /\ db' = [db EXCEPT !.sessions = CreateSession(db.sessions, self)]
                /\ Goto(w, "ge_install", [loc[w] EXCEPT !.email = fallback_email,
                                            !.obtained = fallback_email,
                                            !.session_id = self.session_id, !.self = self,
                                            !.fallback = TRUE])
             \/ /\ Locked(w)
                /\ Crash(w, "database is locked")
                /\ UNCHANGED db
    /\ UNCHANGED <<test, now, tx, active_sessions>>

\* TempMailSession.__init__, line 81, the result of generate_email (lines 159-163
\* or 170-175) and the answer of generate_email_endpoint, lines 2327-2336
GenerateInstall(w) ==
    /\ pc[w] = "ge_install"
    /\ active_sessions' = SetKey(active_sessions, loc[w].session_id, loc[w].self)
    /\ Respond(w, [kind |-> "ok", success |-> TRUE, email |-> loc[w].email,
                   session_id |-> loc[w].session_id,
                   custom |-> IF loc[w].fallback THEN FALSE ELSE loc[w].prefix_given,
                   fallback |-> loc[w].fallback])
    /\ UNCHANGED <<test, now, db, tx>>

\* ---------------------------------------------------------------- mark read
\* the message ids a caller may send: one it was shown, any other, or none
MessageIds == {r.message_id : r \in Rows(db.messages)} \cup {<<"x">>, <<>>}

\* mark_as_read, lines 301-306
MarkAsRead(messages, message_id, session_id) ==
    [i \in 1..Len(messages) |->
        IF messages[i].message_id = message_id /\ messages[i].session_id = session_id
        THEN [messages[i] EXCEPT !.is_read = 1]
        ELSE messages[i]]

\* mark_read_endpoint, lines 2431-2439
MarkReadRequest(w, inputs) ==
    /\ pc[w] = "idle"
    /\ \E req \in inputs, message_id \in MessageIds :
         LET l == [loc[w] EXCEPT !.op = "mark_read", !.session_id = req.session_id,
                                 !.message_id = message_id]
         IN  \/ /\ req.session_id = <<>> \/ message_id = <<>>
                /\ Goto(w, "done", [l EXCEPT !.resp = Failure("Missing data")])
                /\ UNCHANGED db
             \/ /\ req.session_id # <<>> /\ message_id # <<>>
                /\ CanWrite(w)
                /\ db' = [db EXCEPT !.messages =
                              MarkAsRead(db.messages, message_id, req.session_id)]
                /\ Goto(w, "done", [l EXCEPT !.resp = [kind |-> "ok", success |-> TRUE]])
             \/ /\ req.session_id # <<>> /\ message_id # <<>>
                /\ Locked(w)
                /\ Goto(w, "done",
                        [l EXCEPT !.resp = [kind |-> "crash", error |-> "database is locked"]])
                /\ UNCHANGED db
    /\ UNCHANGED <<test, now, tx, active_sessions>>

\* ---------------------------------------------------------------- one message
\* SELECT ... FROM messages WHERE session_id = ? AND message_id = ?
SelectMessage(messages, session_id, message_id) ==
    SelectSeq(messages, LAMBDA r : r.session_id = session_id /\ r.message_id = message_id)

\* get_message_endpoint, lines 2398-2427
GetMessageRequest(w, inputs) ==
    /\ pc[w] = "idle"
    /\ \E req \in inputs, message_id \in MessageIds :
         LET l == [loc[w] EXCEPT !.op = "get_message", !.session_id = req.session_id,
                                 !.message_id = message_id]
             found == SelectMessage(db.messages, req.session_id, message_id)
         IN  IF req.session_id = <<>> \/ message_id = <<>>
             THEN Goto(w, "done", [l EXCEPT !.resp = Failure("Missing data")])
             ELSE IF found # <<>>
                  THEN Goto(w, "done", [l EXCEPT !.resp = [kind |-> "ok", success |-> TRUE,
                                                           message |-> found[1]]])
                  ELSE Goto(w, "done", [l EXCEPT !.resp = Failure("Message not found")])
    /\ UNCHANGED <<test, now, db, tx, active_sessions>>

\* a mark-all-read that removes the rows it should flag
MarkAllReadDropping(messages, session_id) ==
    SelectSeq(messages, LAMBDA r : r.session_id # session_id)

\* UPDATE messages SET is_read = 1 WHERE session_id = ?
MarkAllRead(messages, session_id) ==
    [i \in 1..Len(messages) |->
        IF messages[i].session_id = session_id
        THEN [messages[i] EXCEPT !.is_read = 1]
        ELSE messages[i]]

\* mark_all_read_endpoint, lines 2441-2457
MarkAllReadRequest(w, inputs) ==
    /\ pc[w] = "idle"
    /\ \E req \in inputs :
         LET l == [loc[w] EXCEPT !.op = "mark_all_read", !.session_id = req.session_id]
         IN  \/ /\ req.session_id = <<>>
                /\ Goto(w, "done", [l EXCEPT !.resp = Failure("Missing session ID")])
                /\ UNCHANGED db
             \/ /\ req.session_id # <<>>
                /\ CanWrite(w)
                /\ db' = [db EXCEPT !.messages = MarkAllRead(db.messages, req.session_id)]
                /\ Goto(w, "done", [l EXCEPT !.resp = [kind |-> "ok", success |-> TRUE]])
             \/ /\ req.session_id # <<>>
                /\ Locked(w)
                /\ Goto(w, "done",
                        [l EXCEPT !.resp = [kind |-> "crash", error |-> "database is locked"]])
                /\ UNCHANGED db
    /\ UNCHANGED <<test, now, tx, active_sessions>>

\* a DELETE by message id alone
DeleteMessageOfAnySession(messages, message_id, session_id) ==
    SelectSeq(messages, LAMBDA r : r.message_id # message_id)

\* delete_message, lines 311-317: DELETE FROM messages WHERE message_id = ? AND
\* session_id = ?
DeleteMessage(messages, message_id, session_id) ==
    SelectSeq(messages, LAMBDA r : ~(r.message_id = message_id /\ r.session_id = session_id))

\* delete_message_endpoint, lines 2459-2469
DeleteMessageRequest(w, inputs) ==
    /\ pc[w] = "idle"
    /\ \E req \in inputs, message_id \in MessageIds :
         LET l == [loc[w] EXCEPT !.op = "delete_message", !.session_id = req.session_id,
                                 !.message_id = message_id]
         IN  \/ /\ req.session_id = <<>> \/ message_id = <<>>
                /\ Goto(w, "done", [l EXCEPT !.resp = Failure("Missing data")])
                /\ UNCHANGED db
             \/ /\ req.session_id # <<>> /\ message_id # <<>>
                /\ CanWrite(w)
                /\ db' = [db EXCEPT !.messages =
                              DeleteMessage(db.messages, message_id, req.session_id)]
                /\ Goto(w, "done", [l EXCEPT !.resp = [kind |-> "ok", success |-> TRUE]])
             \/ /\ req.session_id # <<>> /\ message_id # <<>>
                /\ Locked(w)
                /\ Goto(w, "done",
                        [l EXCEPT !.resp = [kind |-> "crash", error |-> "database is locked"]])
                /\ UNCHANGED db
    /\ UNCHANGED <<test, now, tx, active_sessions>>

\* ---------------------------------------------------------------- get messages
\* get_messages_endpoint, lines 2377-2386
GetMessagesRequest(w, inputs, limits, offsets) ==
    /\ pc[w] = "idle"
    /\ \E req \in inputs, limit \in limits, offset \in offsets, unread_only \in BOOLEAN :
         LET l == [loc[w] EXCEPT !.op = "get_messages", !.session_id = req.session_id]
         IN  IF req.session_id = <<>>
             THEN Goto(w, "done", [l EXCEPT !.resp = Failure("Missing session ID")])
             ELSE Goto(w, "lm_rows", Listing(l, limit, offset, unread_only))
    /\ UNCHANGED <<test, now, db, tx, active_sessions>>

\* ---------------------------------------------------------------- deactivate
\* an exception in deactivate: delete_session_endpoint lets it out, the try of
\* clear_all_sessions_endpoint (lines 2675, 2687) answers with it
Raise(w, error) ==
    IF loc[w].op = "clear_all" THEN Respond(w, Failure(error)) ELSE Crash(w, error)

\* active_sessions[session_id] (line 2496 or 2678) and deactivate, line 93
DeactivateLookup(w, session_id) ==
    IF session_id \notin DOMAIN active_sessions
    THEN /\ Raise(w, "KeyError")
         /\ UNCHANGED active_sessions
    ELSE LET h == [active_sessions[session_id] EXCEPT !.is_active = FALSE]
         IN  /\ active_sessions' = RegistryWith(h.oid, h)
             /\ loc' = [LocalsWith(h.oid, h) EXCEPT
                           ![w] = [loc[w] EXCEPT !.self = h, !.todo = @ \ {session_id}]]
             /\ pc' = [pc EXCEPT ![w] = "de_update"]

\* a deactivation that deletes the session row
DeleteSessionRow(sessions, session_id) ==
    SelectSeq(sessions, LAMBDA r : r.session_id # session_id)

\* UPDATE sessions SET is_active = 0 WHERE session_id = ?
SetInactive(sessions, session_id) ==
    [i \in 1..Len(sessions) |->
        IF sessions[i].session_id = session_id
        THEN [sessions[i] EXCEPT !.is_active = 0]
        ELSE sessions[i]]

\* TempMailSession.deactivate, lines 94-99
DeactivateUpdate(w) ==
    /\ pc[w] = "de_update"
    /\ \/ /\ CanWrite(w)
          /\ db' = [db EXCEPT !.sessions = SetInactive(db.sessions, loc[w].self.session_id)]
          /\ Goto(w, "de_test", loc[w])
       \/ /\ Locked(w)
          /\ Raise(w, "database is locked")
          /\ UNCHANGED db
    /\ UNCHANGED <<test, now, tx, active_sessions>>

\* where the caller of deactivate goes on
AfterDeactivate(w) ==
    IF loc[w].op = "clear_all" THEN "ca_loop" ELSE "ds_delete"

\* TempMailSession.deactivate, line 100
DeactivateTest(w) ==
    /\ pc[w] = "de_test"
    /\ IF loc[w].self.session_id \in DOMAIN active_sessions
       THEN Goto(w, "de_del", loc[w])
       ELSE Goto(w, AfterDeactivate(w), [loc[w] EXCEPT !.self = NoHandle])
    /\ UNCHANGED <<test, now, db, tx, active_sessions>>

\* TempMailSession.deactivate, line 101
DeactivateDel(w) ==
    /\ pc[w] = "de_del"
    /\ IF loc[w].self.session_id \in DOMAIN active_sessions
       THEN /\ active_sessions' = DelKey(active_sessions, loc[w].self.session_id)
            /\ Goto(w, AfterDeactivate(w), [loc[w] EXCEPT !.self = NoHandle])
       ELSE /\ Raise(w, "KeyError")
            /\ UNCHANGED active_sessions
    /\ UNCHANGED <<test, now, db, tx>>

\* ---------------------------------------------------------------- delete session
\* a delete-session that does not look at its input
DeleteSessionRequestUnchecked(w, inputs) ==
    /\ pc[w] = "idle"
    /\ \E req \in inputs :
         LET l == [loc[w] EXCEPT !.op = "delete_session", !.session_id = req.session_id]
         IN  IF req.session_id \in DOMAIN active_sessions
             THEN Goto(w, "ds_lookup", [l EXCEPT !.member = TRUE])
             ELSE Goto(w, "ds_delete", l)
    /\ UNCHANGED <<test, now, db, tx, active_sessions>>

\* delete_session_endpoint, lines 2489-2495
DeleteSessionRequest(w, inputs) ==
    /\ pc[w] = "idle"
    /\ \E req \in inputs :
         LET l == [loc[w] EXCEPT !.op = "delete_session", !.session_id = req.session_id]
         IN  IF req.session_id = <<>>
             THEN Goto(w, "done", [l EXCEPT !.resp = Failure("Missing session ID")])
             ELSE IF req.session_id \in DOMAIN active_sessions
                  THEN Goto(w, "ds_lookup", [l EXCEPT !.member = TRUE])
                  ELSE Goto(w, "ds_delete", l)
    /\ UNCHANGED <<test, now, db, tx, active_sessions>>

\* delete_session_endpoint, line 2496
DeleteSessionLookup(w) ==
    /\ pc[w] = "ds_lookup"
    /\ DeactivateLookup(w, loc[w].session_id)
    /\ UNCHANGED <<test, now, db, tx>>

\* the per-session delete keeps the messages of the session
KeepSessionMessages(messages, session_id) == messages

\* DELETE FROM messages WHERE session_id = ?
DeleteSessionMessages(messages, session_id) ==
    SelectSeq(messages, LAMBDA r : r.session_id # session_id)

\* delete_session_endpoint, lines 2498-2503: one transaction
DeleteSessionDelete(w) ==
    /\ pc[w] = "ds_delete"
    /\ \/ /\ CanWrite(w)
          /\ db' = [sessions |-> SetInactive(db.sessions, loc[w].session_id),
                    messages |-> DeleteSessionMessages(db.messages, loc[w].session_id)]
          /\ Respond(w, [kind |-> "ok", success |-> TRUE])
       \/ /\ Locked(w)
          /\ Crash(w, "database is locked")
          /\ UNCHANGED db
    /\ UNCHANGED <<test, now, tx, active_sessions>>

\* delete_all_messages_endpoint, lines 2471-2485
DeleteAllMessagesRequest(w, inputs) ==
    /\ pc[w] = "idle"
    /\ \E req \in inputs :
         LET l == [loc[w] EXCEPT !.op = "delete_all_messages",
                                 !.session_id = req.session_id]
         IN  \/ /\ req.session_id = <<>>
                /\ Goto(w, "done", [l EXCEPT !.resp = Failure("Missing session ID")])
                /\ UNCHANGED db
             \/ /\ req.session_id # <<>>
                /\ CanWrite(w)
                /\ db' = [db EXCEPT !.messages =
                              DeleteSessionMessages(db.messages, req.session_id)]
                /\ Goto(w, "done", [l EXCEPT !.resp = [kind |-> "ok", success |-> TRUE]])
             \/ /\ req.session_id # <<>>
                /\ Locked(w)
                /\ Goto(w, "done",
                        [l EXCEPT !.resp = [kind |-> "crash", error |-> "database is locked"]])
                /\ UNCHANGED db
    /\ UNCHANGED <<test, now, tx, active_sessions>>

\* ---------------------------------------------------------------- deactivate all
\* clear_all_sessions_endpoint, line 2677: list(active_sessions.keys())
ClearAllRequest(w) ==
    /\ pc[w] = "idle"
    /\ Goto(w, "ca_loop", [loc[w] EXCEPT !.op = "clear_all",
                                         !.keys = DOMAIN active_sessions,
                                         !.todo = DOMAIN active_sessions])
    /\ UNCHANGED <<test, now, db, tx, active_sessions>>

\* clear_all_sessions_endpoint, lines 2677-2680: the next key of the list, or
\* active_sessions.clear() after the last
ClearAllLoop(w) ==
    /\ pc[w] = "ca_loop"
    /\ IF loc[w].todo = {}
       THEN /\ active_sessions' = <<>>
            /\ Goto(w, "ca_update", loc[w])
       ELSE \E session_id \in loc[w].todo : DeactivateLookup(w, session_id)
    /\ UNCHANGED <<test, now, db, tx>>

\* a deactivate-all that deletes the messages as the per-session delete does
ClearAllAndMessages(d) ==
    [sessions |-> [i \in 1..Len(d.sessions) |-> [d.sessions[i] EXCEPT !.is_active = 0]],
     messages |-> <<>>]

\* clear_all_sessions_endpoint, lines 2682-2684: UPDATE sessions SET is_active = 0
ClearAllSessions(d) ==
    [d EXCEPT !.sessions = [i \in 1..Len(d.sessions) |->
                               [d.sessions[i] EXCEPT !.is_active = 0]]]

ClearAllUpdate(w) ==
    /\ pc[w] = "ca_update"
    /\ \/ /\ CanWrite(w)
          /\ db' = ClearAllSessions(db)
          /\ Respond(w, [kind |-> "ok", success |-> TRUE])
       \/ /\ Locked(w)
          /\ Respond(w, Failure("database is locked"))
          /\ UNCHANGED db
    /\ UNCHANGED <<test, now, tx, active_sessions>>

\* ---------------------------------------------------------------- purge inactive
\* timedelta(hours=24), in clock ticks
Retention == 2

\* the exception handler of delete_inactive_endpoint and clear_database_endpoint
\* (lines 2637, 2670): closing() has closed the connection, which rolls back what
\* it had not committed
FailRollback(w, error) ==
    /\ tx' = IF tx.owner = w THEN NoTx ELSE tx
    /\ Respond(w, Failure(error))

\* a purge that does not look at the age of the session
InactiveOfAnyAge(sessions, cutoff) ==
    LET found == SelectSeq(sessions, LAMBDA r : r.is_active = 0)
    IN  [i \in 1..Len(found) |-> found[i].session_id]

\* SELECT session_id FROM sessions WHERE is_active = 0 AND last_activity < ?
InactiveSessions(sessions, cutoff) ==
    LET found == SelectSeq(sessions, LAMBDA r : r.is_active = 0 /\ r.last_activity < cutoff)
    IN  [i \in 1..Len(found) |-> found[i].session_id]

\* delete_inactive_endpoint, lines 2643-2652
PurgeRequest(w) ==
    /\ pc[w] = "idle"
    /\ LET cutoff == now - Retention
       IN  Goto(w, "pi_loop",
                [loc[w] EXCEPT !.op = "purge", !.cutoff = cutoff, !.i = 1,
                               !.inactive_sessions =
                                   InactiveSessions(View(w).sessions, cutoff)])
    /\ UNCHANGED <<test, now, db, tx, active_sessions>>

\* delete_inactive_endpoint, lines 2655-2658: the two DELETEs for the next session
\* of the list, in the connection's transaction
PurgeDelete(w) ==
    /\ pc[w] = "pi_loop"
    /\ loc[w].i <= Len(loc[w].inactive_sessions)
    /\ LET session_id == loc[w].inactive_sessions[loc[w].i]
       IN  \/ /\ CanWrite(w)
              /\ tx' = [owner |-> w,
                        sessions |-> SelectSeq(View(w).sessions,
                                               LAMBDA r : r.session_id # session_id),
                        messages |-> SelectSeq(View(w).messages,
                                               LAMBDA r : r.session_id # session_id)]
              /\ Goto(w, "pi_test", [loc[w] EXCEPT !.session_id = session_id])
           \/ /\ Locked(w)
              /\ FailRollback(w, "database is locked")
    /\ UNCHANGED <<test, now, db, active_sessions>>

\* lines 2661-2662: the membership test, then, as a step of its own, the del
PurgeRegistry(w) ==
    /\ \/ /\ pc[w] = "pi_test"
          /\ IF loc[w].session_id \in DOMAIN active_sessions
             THEN Goto(w, "pi_del", loc[w])
             ELSE Goto(w, "pi_loop", [loc[w] EXCEPT !.i = @ + 1])
          /\ UNCHANGED <<tx, active_sessions>>
       \/ /\ pc[w] = "pi_del"
          /\ IF loc[w].session_id \in DOMAIN active_sessions
             THEN /\ active_sessions' = DelKey(active_sessions, loc[w].session_id)
                  /\ Goto(w, "pi_loop", [loc[w] EXCEPT !.i = @ + 1])
                  /\ UNCHANGED tx
             ELSE /\ FailRollback(w, "KeyError")
                  /\ UNCHANGED active_sessions
    /\ UNCHANGED <<test, now, db>>

\* lines 2664-2669
PurgeCommit(w) ==
    /\ pc[w] = "pi_loop"
    /\ loc[w].i > Len(loc[w].inactive_sessions)
    /\ db' = Committed(w)
    /\ tx' = IF tx.owner = w THEN NoTx ELSE tx
    /\ Respond(w, [kind |-> "ok", success |-> TRUE,
                   deleted_count |-> Len(loc[w].inactive_sessions)])
    /\ UNCHANGED <<test, now, active_sessions>>

\* ---------------------------------------------------------------- reactivate
\* a lookup that finds only the sessions flagged active
SelectActiveSession(sessions, session_id) ==
    SelectSeq(sessions, LAMBDA r : r.session_id = session_id /\ r.is_active = 1)

\* SELECT email FROM sessions WHERE session_id = ?
SelectSession(sessions, session_id) ==
    SelectSeq(sessions, LAMBDA r : r.session_id = session_id)

\* activate_session_endpoint, lines 2537-2547: found holds the rows the SELECT
\* matched, of which the handler reads the email of the first
ActivateRequest(w, inputs) ==
    /\ pc[w] = "idle"
    /\ \E req \in inputs :
         LET l == [loc[w] EXCEPT !.op = "reactivate", !.session_id = req.session_id]
             found == SelectSession(View(w).sessions, req.session_id)
         IN  IF req.session_id = <<>>
             THEN Goto(w, "done", [l EXCEPT !.resp = Failure("Missing session ID")])
             ELSE IF found # <<>>
                  THEN Goto(w, "ac_create", [l EXCEPT !.found = found,
                                                      !.email = found[1].email])
                  ELSE Goto(w, "done", [l EXCEPT !.resp = Failure("Session not found")])
    /\ UNCHANGED <<test, now, db, tx, active_sessions>>

\* line 2550, TempMailSession.__init__ up to its commit
ActivateCreate(w) ==
    /\ pc[w] = "ac_create"
    /\ LET self == Handle(FreshOid, loc[w].email, loc[w].session_id, now)
       IN  \/ /\ CanWrite(w)
              /\ db' = [db EXCEPT !.sessions = CreateSession(db.sessions, self)]
              /\ Goto(w, "ac_install", [loc[w] EXCEPT !.self = self])
           \/ /\ Locked(w)
              /\ Crash(w, "database is locked")
              /\ UNCHANGED db
    /\ UNCHANGED <<test, now, tx, active_sessions>>

\* TempMailSession.__init__, line 81, and the answer, lines 2552-2556
ActivateInstall(w) ==
    /\ pc[w] = "ac_install"
    /\ active_sessions' = SetKey(active_sessions, loc[w].session_id, loc[w].self)
    /\ Respond(w, [kind |-> "ok", success |-> TRUE, email |-> loc[w].email,
                   session_id |-> loc[w].session_id])
    /\ UNCHANGED <<test, now, db, tx>>

\* ---------------------------------------------------------------- clear store
\* clear_database_endpoint, lines 2626-2630: the three DELETEs and their commit
ClearDatabaseDelete(w) ==
    /\ pc[w] = "idle"
    /\ \/ /\ CanWrite(w)
          /\ db' = EmptyDb
          /\ Goto(w, "cd_clear", [loc[w] EXCEPT !.op = "clear_database"])
       \/ /\ Locked(w)
          /\ Respond(w, Failure("database is locked"))
          /\ UNCHANGED db
    /\ UNCHANGED <<test, now, tx, active_sessions>>

\* a clear-store that leaves the registry as it is
ClearDatabaseKeepHandles(w) ==
    /\ pc[w] = "cd_clear"
    /\ Respond(w, [kind |-> "ok", success |-> TRUE])
    /\ UNCHANGED <<test, now, db, tx, active_sessions>>

\* lines 2633-2636
ClearDatabaseClear(w) ==
    /\ pc[w] = "cd_clear"
    /\ active_sessions' = <<>>
    /\ Respond(w, [kind |-> "ok", success |-> TRUE])
    /\ UNCHANGED <<test, now, db, tx>>

\* ---------------------------------------------------------------- session stats
Min(a, b) == IF a <= b THEN a ELSE b

\* get_session_stats, lines 357-367: COUNT, SUM, MIN, MAX over the session's rows;
\* SUM, MIN and MAX of no row are NULL (here -1)
MessageStats(messages, session_id) ==
    LET own == SelectSeq(messages, LAMBDA r : r.session_id = session_id)
        times == {own[i].received_at : i \in 1..Len(own)}
    IN  [total |-> Len(own),
         unread |-> IF own = <<>> THEN -1
                    ELSE Len(SelectSeq(own, LAMBDA r : r.is_read = 0)),
         first_msg |-> IF own = <<>> THEN -1
                       ELSE CHOOSE t \in times : \A u \in times : t <= u,
         last_msg |-> IF own = <<>> THEN -1
                      ELSE CHOOSE t \in times : \A u \in times : t >= u]

\* get_session_stats, lines 374-375: stats[k] if stats[k] else 0
OrZero(n) == IF n = -1 \/ n = 0 THEN 0 ELSE n

\* get_session_stats_endpoint, lines 2562-2566, get_session_stats, lines 357-367
StatsRequest(w, inputs) ==
    /\ pc[w] = "idle"
    /\ \E req \in inputs :
         LET l == [loc[w] EXCEPT !.op = "stats", !.session_id = req.session_id]
         IN  IF req.session_id = <<>>
             THEN Goto(w, "done", [l EXCEPT !.resp = Failure("Missing session ID")])
             ELSE Goto(w, "st_session",
                       [l EXCEPT !.stats = MessageStats(db.messages, req.session_id)])
    /\ UNCHANGED <<test, now, db, tx, active_sessions>>

\* get_session_stats, lines 369-381
StatsSession(w) ==
    /\ pc[w] = "st_session"
    /\ LET info == SelectSeq(db.sessions, LAMBDA r : r.session_id = loc[w].session_id)
           stats == loc[w].stats
       IN  Respond(w, [kind |-> "ok", success |-> TRUE,
                       total_messages |-> OrZero(stats.total),
                       unread_messages |-> OrZero(stats.unread),
                       first_message |-> stats.first_msg,
                       last_message |-> stats.last_msg,
                       email |-> IF info # <<>> THEN info[1].email ELSE <<"Unknown">>,
                       created_at |-> IF info # <<>> THEN info[1].created_at ELSE -1,
                       active |-> loc[w].session_id \in DOMAIN active_sessions])
    /\ UNCHANGED <<test, now, db, tx, active_sessions>>

\* ---------------------------------------------------------------- global stats
\* the number of registry entries
LiveHandlesCount(sessions) == Cardinality(DOMAIN active_sessions)

\* SELECT COUNT(*) FROM sessions WHERE is_active = 1, line 2583
ActiveSessionsCount(sessions) ==
    Cardinality({i \in 1..Len(sessions) : sessions[i].is_active = 1})

\* SELECT COUNT(*) FROM messages WHERE is_read = 0, line 2579
UnreadMessagesCount(messages) ==
    Cardinality({i \in 1..Len(messages) : messages[i].is_read = 0})

\* line 2587
DeletedAllowance == 100

DeletedEstimate(total_messages, unread_messages) ==
    Max(0, total_messages - unread_messages - DeletedAllowance)

\* get_stats_endpoint, lines 2573-2576: the connection is in autocommit mode, each
\* of the three SELECTs reads the store as it is when it runs
GetStatsRequest(w) ==
    /\ pc[w] = "idle"
    /\ Goto(w, "gs_unread", [loc[w] EXCEPT !.op = "get_stats",
                                           !.total = Len(db.messages)])
    /\ UNCHANGED <<test, now, db, tx, active_sessions>>

\* lines 2579-2580
GetStatsUnread(w) ==
    /\ pc[w] = "gs_unread"
    /\ Goto(w, "gs_active",
            [loc[w] EXCEPT !.stats = [@ EXCEPT !.unread = UnreadMessagesCount(db.messages)]])
    /\ UNCHANGED <<test, now, db, tx, active_sessions>>

\* lines 2583-2597
GetStatsActive(w) ==
    /\ pc[w] = "gs_active"
    /\ Respond(w, [kind |-> "ok", success |-> TRUE,
                   total_messages |-> loc[w].total,
                   unread_messages |-> loc[w].stats.unread,
                   active_sessions |-> ActiveSessionsCount(db.sessions),
                   deleted_messages |-> DeletedEstimate(loc[w].total, loc[w].stats.unread)])
    /\ UNCHANGED <<test, now, db, tx, active_sessions>>

\* ---------------------------------------------------------------- system
\* the response is sent: the worker is free for the next request
Return(w) ==
    /\ pc[w] = "done"
    /\ Goto(w, "idle", InitLoc)
    /\ UNCHANGED <<test, now, db, tx, active_sessions>>

\* time passes, up to a last clock value
TickTo(last) ==
    /\ now < last
    /\ now' = now + 1
    /\ UNCHANGED <<test, db, tx, active_sessions, pc, loc>>

Tick == TickTo(MaxTime)

Init ==
    /\ now = 0
    /\ db = EmptyDb
    /\ tx = NoTx
    /\ active_sessions = <<>>
    /\ pc = [w \in Workers |-> "idle"]
    /\ loc = [w \in Workers |-> InitLoc]
    /\ test = NoTest

\* ingestion and reading, by concurrent requests for sessions of any id
NextIngest ==
    \/ Tick
    \/ \E w \in Workers :
         \/ CheckInboxRequest(w, Strangers)
         \/ CheckInboxFetch(w, RawMessages, MaxRows)
         \/ StoreSelect(w) \/ StoreInsert(w) \/ StoreCommit(w)
         \/ ListRows(w) \/ ListTotal(w) \/ ListUnread(w)
         \/ MarkReadRequest(w, Strangers)
         \/ Return(w)

SpecIngest == Init /\ [][NextIngest]_vars

\* every request on the sessions the store knows, by one worker at a time
OneStranger == {[email |-> StrangerEmail, session_id |-> StrangerId]}

NextSolo ==
    \/ Tick
    \/ \E w \in {"w1"} :
         \/ GenerateRequest(w, {}) \/ GenerateTry(w, {<<"u", "@", "g">>}) \/ GenerateCreate(w)
         \/ GenerateInstall(w)
         \/ CheckInboxRequest(w, KnownSessions) \/ CheckInboxLookup(w)
         \/ CheckInboxUpdate(w) \/ CheckInboxFetch(w, {MsgDictABC, MsgTextOnly}, MaxRows)
         \/ StoreSelect(w) \/ StoreInsert(w) \/ StoreCommit(w)
         \/ ListRows(w) \/ ListTotal(w) \/ ListUnread(w)
         \/ MarkReadRequest(w, KnownSessions)
         \/ DeleteSessionRequest(w, KnownSessions \cup OneStranger)
         \/ DeleteSessionLookup(w) \/ DeleteSessionDelete(w)
         \/ DeactivateUpdate(w) \/ DeactivateTest(w) \/ DeactivateDel(w)
         \/ ClearAllRequest(w) \/ ClearAllLoop(w) \/ ClearAllUpdate(w)
         \/ StatsRequest(w, KnownSessions \cup OneStranger) \/ StatsSession(w)
         \/ Return(w)

SpecSolo == Init /\ [][NextSolo]_vars

\* sessions are made, used, deleted and purged, by one worker at a time, over a
\* time that exceeds the retention
MaxAge == 3

NextPurge ==
    \/ TickTo(MaxAge)
    \/ \E w \in {"w1"} :
         \/ GenerateRequest(w, {}) \/ GenerateTry(w, {}) \/ GenerateCreate(w)
         \/ GenerateInstall(w)
         \/ CheckInboxRequest(w, KnownSessions) \/ CheckInboxLookup(w)
         \/ CheckInboxUpdate(w) \/ CheckInboxFetch(w, {MsgTextOnly}, MaxRows)
         \/ StoreSelect(w) \/ StoreInsert(w) \/ StoreCommit(w)
         \/ ListRows(w) \/ ListTotal(w) \/ ListUnread(w)
         \/ DeleteSessionRequest(w, KnownSessions)
         \/ DeleteSessionLookup(w) \/ DeleteSessionDelete(w)
         \/ DeactivateUpdate(w) \/ DeactivateTest(w) \/ DeactivateDel(w)
         \/ PurgeRequest(w) \/ PurgeDelete(w) \/ PurgeRegistry(w) \/ PurgeCommit(w)
         \/ Return(w)

SpecPurge == Init /\ [][NextPurge]_vars

\* the life of sessions without mail: generated (with the local fallback address),
\* deactivated singly or all, purged, cleared and reactivated, by one worker at a
\* time; a caller may send any session id that may ever have been given out
LocalEmail == <<"r", "@", "tempmail.tmp">>

EverSessions ==
    {[email |-> LocalEmail, session_id |-> SessionId(LocalEmail, t)] : t \in 0..now}

NextLife ==
    \/ TickTo(MaxAge)
    \/ \E w \in {"w1"} :
         \/ GenerateRequest(w, {}) \/ GenerateTry(w, {}) \/ GenerateCreate(w)
         \/ GenerateInstall(w)
         \/ DeleteSessionRequest(w, EverSessions)
         \/ DeleteSessionLookup(w) \/ DeleteSessionDelete(w)
         \/ DeactivateUpdate(w) \/ DeactivateTest(w) \/ DeactivateDel(w)
         \/ ClearAllRequest(w) \/ ClearAllLoop(w) \/ ClearAllUpdate(w)
         \/ PurgeRequest(w) \/ PurgeDelete(w) \/ PurgeRegistry(w) \/ PurgeCommit(w)
         \/ ClearDatabaseDelete(w) \/ ClearDatabaseClear(w)
         \/ ActivateRequest(w, EverSessions) \/ ActivateCreate(w) \/ ActivateInstall(w)
         \/ Return(w)

SpecLife == Init /\ [][NextLife]_vars

\* the requests that touch the registry, by concurrent workers, within one tick of
\* the clock (no writer keeps a transaction open here, so no write finds the
\* database locked)
NextRace ==
    \E w \in Workers :
         \/ GenerateRequest(w, {}) \/ GenerateTry(w, {}) \/ GenerateCreate(w)
         \/ GenerateInstall(w)
         \/ CheckInboxRequest(w, KnownSessions) \/ CheckInboxLookup(w)
         \/ CheckInboxUpdate(w) \/ CheckInboxFetch(w, {}, 0)
         \/ ListRows(w) \/ ListTotal(w) \/ ListUnread(w)
         \/ DeleteSessionRequest(w, KnownSessions)
         \/ DeleteSessionLookup(w) \/ DeleteSessionDelete(w)
         \/ DeactivateUpdate(w) \/ DeactivateTest(w) \/ DeactivateDel(w)
         \/ ClearAllRequest(w) \/ ClearAllLoop(w) \/ ClearAllUpdate(w)
         \/ ClearDatabaseDelete(w) \/ ClearDatabaseClear(w)
         \/ ActivateRequest(w, KnownSessions) \/ ActivateCreate(w) \/ ActivateInstall(w)
         \/ Return(w)

SpecRace == Init /\ [][NextRace]_vars

\* every request that names a session, with the ids of sessions the store knows,
\* ids it does not know and bodies that lack a field, by one worker at a time
Anyone == KnownSessions \cup OneStranger \cup Incomplete

NextInputs ==
    \/ Tick
    \/ \E w \in {"w1"} :
         \/ GenerateRequest(w, {}) \/ GenerateTry(w, {}) \/ GenerateCreate(w)
         \/ GenerateInstall(w)
         \/ CheckInboxRequest(w, Anyone) \/ CheckInboxLookup(w)
         \/ CheckInboxUpdate(w) \/ CheckInboxFetch(w, {MsgTextOnly}, MaxRows)
         \/ StoreSelect(w) \/ StoreInsert(w) \/ StoreCommit(w)
         \/ ListRows(w) \/ ListTotal(w) \/ ListUnread(w)
         \/ GetMessagesRequest(w, Anyone, {1}, {0})
         \/ GetMessageRequest(w, Anyone)
         \/ MarkReadRequest(w, Anyone) \/ MarkAllReadRequest(w, Anyone)
         \/ DeleteMessageRequest(w, Anyone)
         \/ DeleteAllMessagesRequest(w, Anyone)
         \/ DeleteSessionRequest(w, Anyone)
         \/ DeleteSessionLookup(w) \/ DeleteSessionDelete(w)
         \/ DeactivateUpdate(w) \/ DeactivateTest(w) \/ DeactivateDel(w)
         \/ ActivateRequest(w, Anyone) \/ ActivateCreate(w) \/ ActivateInstall(w)
         \/ StatsRequest(w, Anyone) \/ StatsSession(w)
         \/ Return(w)

SpecInputs == Init /\ [][NextInputs]_vars

\* the requests that write the store (but the purge, which needs a longer time), by
\* one worker at a time, on sessions with mail
NextKeep ==
    \/ Tick
    \/ \E w \in {"w1"} :
         \/ GenerateRequest(w, {}) \/ GenerateTry(w, {}) \/ GenerateCreate(w)
         \/ GenerateInstall(w)
         \/ CheckInboxRequest(w, KnownSessions) \/ CheckInboxLookup(w)
         \/ CheckInboxUpdate(w) \/ CheckInboxFetch(w, {MsgTextOnly}, MaxRows)
         \/ StoreSelect(w) \/ StoreInsert(w) \/ StoreCommit(w)
         \/ ListRows(w) \/ ListTotal(w) \/ ListUnread(w)
         \/ MarkReadRequest(w, KnownSessions) \/ MarkAllReadRequest(w, KnownSessions)
         \/ DeleteMessageRequest(w, KnownSessions)
         \/ DeleteAllMessagesRequest(w, KnownSessions)
         \/ DeleteSessionRequest(w, KnownSessions)
         \/ DeleteSessionLookup(w) \/ DeleteSessionDelete(w)
         \/ DeactivateUpdate(w) \/ DeactivateTest(w) \/ DeactivateDel(w)
         \/ ClearAllRequest(w) \/ ClearAllLoop(w) \/ ClearAllUpdate(w)
         \/ ClearDatabaseDelete(w) \/ ClearDatabaseClear(w)
         \/ ActivateRequest(w, KnownSessions) \/ ActivateCreate(w) \/ ActivateInstall(w)
         \/ Return(w)

SpecKeep == Init /\ [][NextKeep]_vars

\* sessions are made, touched and reactivated by concurrent workers while the clock
\* goes on
NextTouch ==
    \/ Tick
    \/ \E w \in Workers :
         \/ GenerateRequest(w, {}) \/ GenerateTry(w, {}) \/ GenerateCreate(w)
         \/ GenerateInstall(w)
         \/ CheckInboxRequest(w, KnownSessions) \/ CheckInboxLookup(w)
         \/ CheckInboxUpdate(w) \/ CheckInboxFetch(w, {}, 0)
         \/ ListRows(w) \/ ListTotal(w) \/ ListUnread(w)
         \/ ActivateRequest(w, KnownSessions) \/ ActivateCreate(w) \/ ActivateInstall(w)
         \/ Return(w)

SpecTouch == Init /\ [][NextTouch]_vars

\* ingestion of batches with messages that fail, by concurrent workers, while the
\* session is listed in full
NextBatch ==
    \/ Tick
    \/ \E w \in Workers :
         \/ CheckInboxRequest(w, OneStranger)
         \/ CheckInboxFetch(w, {MsgDictABC, MsgTextOnly, MsgUnbindable}, MaxRows)
         \/ StoreSelect(w) \/ StoreInsert(w) \/ StoreCommit(w) \/ StoreAbort(w)
         \/ ListRows(w) \/ ListTotal(w) \/ ListUnread(w)
         \/ GetMessagesRequest(w, OneStranger, {-1}, {0})
         \/ Return(w)

SpecBatch == Init /\ [][NextBatch]_vars

\* address generation, whatever the gateway answers, while a message is ingested
MaxIngested == 1

NextGenerate ==
    \/ Tick
    \/ \E w \in {"w1"} :
         \/ GenerateRequest(w, Prefixes) \/ GenerateTry(w, GatewayEmails)
         \/ GenerateCreate(w) \/ GenerateFallback(w) \/ GenerateInstall(w)
         \/ Return(w)
    \/ \E w \in {"w2"} :
         \/ CheckInboxRequest(w, OneStranger)
         \/ CheckInboxFetch(w, {MsgTextOnly}, MaxIngested)
         \/ StoreSelect(w) \/ StoreInsert(w) \/ StoreCommit(w)
         \/ ListRows(w) \/ ListTotal(w) \/ ListUnread(w)
         \/ Return(w)

SpecGenerate == Init /\ [][NextGenerate]_vars

\* Requests that wait for the gateway and for the store: addresses are generated
\* while messages are ingested.  A handler that has a step to take takes it: the
\* server gives each request its own thread, the calls of requests.post carry a
\* timeout (lines 133, 192) and a connection waits for a lock no longer than
\* sqlite3's timeout.
GenerateSteps(w) ==
    \/ GenerateTry(w, {<<"u", "@", "g">>, <<>>, GatewayNumber}) \/ GenerateCreate(w)
    \/ GenerateFallback(w) \/ GenerateInstall(w)

CheckInboxSteps(w) ==
    \/ CheckInboxFetch(w, {MsgTextOnly}, MaxIngested)
    \/ StoreSelect(w) \/ StoreInsert(w) \/ StoreCommit(w)
    \/ ListRows(w) \/ ListTotal(w) \/ ListUnread(w)

NextLive ==
    \/ \E w \in {"w1"} :
         \/ GenerateRequest(w, {<<"p">>}) \/ GenerateSteps(w)
         \/ Return(w)
    \/ \E w \in {"w2"} :
         \/ CheckInboxRequest(w, OneStranger) \/ CheckInboxSteps(w)
         \/ Return(w)

SpecLive ==
    /\ Init /\ [][NextLive]_vars
    /\ WF_vars(GenerateSteps("w1")) /\ WF_vars(CheckInboxSteps("w2"))

\* ---------------------------------------------------------------- two ingestions
\* A client has the gateway return one batch to two check-inbox calls for one
\* session and looks at the session's message count after each.
TwiceSetup ==
    /\ test.phase = "none"
    /\ \E b \in Batches(RawMessages, MaxRows) \ {<<>>}, s \in Strangers :
         test' = [phase |-> "send1", batch |-> b, input |-> s, once |-> 0, twice |-> 0]
    /\ UNCHANGED <<now, db, tx, active_sessions, pc, loc>>

TwiceRequest(w) ==
    /\ test.phase \in {"send1", "send2"}
    /\ CheckInboxRequest(w, {test.input})

TwiceFetch(w) ==
    /\ CheckInboxFetch(w, RawMessages, MaxRows)
    /\ pc'[w] = "sm_select"
    /\ loc'[w].messages = test.batch

TwiceObserve(w) ==
    /\ pc[w] = "done"
    /\ test.phase \in {"send1", "send2"}
    /\ LET count == CountMessages(db.messages, test.input.session_id)
       IN  test' = IF test.phase = "send1"
                   THEN [test EXCEPT !.phase = "got1", !.once = count]
                   ELSE [test EXCEPT !.phase = "got2", !.twice = count]
    /\ UNCHANGED <<now, db, tx, active_sessions, pc, loc>>

TwiceReturn(w) ==
    /\ test.phase \in {"got1", "got2"}
    /\ Return(w)

TwiceResend(w) ==
    /\ test.phase = "got1"
    /\ pc[w] = "idle"
    /\ test' = [test EXCEPT !.phase = "send2"]
    /\ UNCHANGED <<now, db, tx, active_sessions, pc, loc>>

NextTwice ==
    \/ Tick
    \/ TwiceSetup
    \/ \E w \in {"w1"} :
         \/ TwiceRequest(w) \/ TwiceFetch(w)
         \/ StoreSelect(w) \/ StoreInsert(w) \/ StoreCommit(w)
         \/ ListRows(w) \/ ListTotal(w) \/ ListUnread(w)
         \/ TwiceObserve(w) \/ TwiceReturn(w) \/ TwiceResend(w)

SpecTwice == Init /\ [][NextTwice]_vars

\* ---------------------------------------------------------------- delete, then stats
\* A client deletes a session of a store that any requests have filled, and then
\* asks for the statistics of that session.
DeleteSetup(w) ==
    /\ test.phase = "none"
    /\ pc[w] = "idle"
    /\ \E s \in KnownSessions \cup OneStranger :
         test' = [phase |-> "delete", input |-> s,
                  had |-> CountMessages(db.messages, s.session_id),
                  deleted |-> NoResp, stats |-> NoResp]
    /\ UNCHANGED <<now, db, tx, active_sessions, pc, loc>>

DeleteFill(w) ==
    /\ test.phase = "none"
    /\ \/ GenerateRequest(w, {})
       \/ CheckInboxRequest(w, KnownSessions)
       \/ MarkReadRequest(w, KnownSessions)

DeleteCall(w) ==
    /\ test.phase = "delete"
    /\ DeleteSessionRequest(w, {test.input})

DeleteStatsCall(w) ==
    /\ test.phase = "stats"
    /\ StatsRequest(w, {test.input})

DeleteObserve(w) ==
    /\ pc[w] = "done"
    /\ test.phase \in {"delete", "stats"}
    /\ test' = IF test.phase = "delete"
               THEN [test EXCEPT !.phase = "deleted", !.deleted = loc[w].resp]
               ELSE [test EXCEPT !.phase = "reported", !.stats = loc[w].resp]
    /\ UNCHANGED <<now, db, tx, active_sessions, pc, loc>>

DeleteReturn(w) ==
    /\ test.phase \in {"none", "deleted", "reported"}
    /\ Return(w)

DeleteGoOn(w) ==
    /\ test.phase = "deleted"
    /\ pc[w] = "idle"
    /\ test' = [test EXCEPT !.phase = "stats"]
    /\ UNCHANGED <<now, db, tx, active_sessions, pc, loc>>

NextDelete ==
    \/ Tick
    \/ \E w \in {"w1"} :
         \/ DeleteFill(w)
         \/ GenerateTry(w, {<<"u", "@", "g">>}) \/ GenerateCreate(w) \/ GenerateInstall(w)
         \/ CheckInboxLookup(w) \/ CheckInboxUpdate(w)
         \/ CheckInboxFetch(w, {MsgDictABC, MsgTextOnly}, MaxRows)
         \/ StoreSelect(w) \/ StoreInsert(w) \/ StoreCommit(w)
         \/ ListRows(w) \/ ListTotal(w) \/ ListUnread(w)
         \/ DeleteSetup(w) \/ DeleteCall(w)
         \/ DeleteSessionLookup(w) \/ DeleteSessionDelete(w)
         \/ DeactivateUpdate(w) \/ DeactivateTest(w) \/ DeactivateDel(w)
         \/ DeleteStatsCall(w) \/ StatsSession(w)
         \/ DeleteObserve(w) \/ DeleteReturn(w) \/ DeleteGoOn(w)

SpecDelete == Init /\ [][NextDelete]_vars

\* ---------------------------------------------------------------- pages
\* Listings of a store that check-inbox and mark-read calls have filled: any
\* listing request, and a client that reads one session page by page, with a fixed
\* page size, until a page comes back empty; between its calls nothing is ingested
\* or deleted.
Limits == {-1, 1, 2}
Offsets == 0..3
PageSizes == {1, 2}

PagesFill(w) ==
    /\ test.phase = "none"
    /\ \/ CheckInboxRequest(w, Strangers)
       \/ MarkReadRequest(w, Strangers)
       \/ GetMessagesRequest(w, Strangers, Limits, Offsets)

PagesSetup(w) ==
    /\ test.phase = "none"
    /\ pc[w] = "idle"
    /\ \E s \in Strangers, limit \in PageSizes :
         test' = [phase |-> "page", input |-> s, limit |-> limit, offset |-> 0,
                  pages |-> <<>>]
    /\ UNCHANGED <<now, db, tx, active_sessions, pc, loc>>

PagesCall(w) ==
    /\ test.phase = "page"
    /\ GetMessagesRequest(w, {test.input}, {test.limit}, {test.offset})
    /\ loc'[w].unread_only = FALSE

PagesObserve(w) ==
    /\ pc[w] = "done"
    /\ test.phase = "page"
    /\ test' = IF loc[w].resp.messages = <<>>
               THEN [test EXCEPT !.phase = "end"]
               ELSE [test EXCEPT !.phase = "got", !.offset = @ + test.limit,
                                 !.pages = @ \o loc[w].resp.messages]
    /\ UNCHANGED <<now, db, tx, active_sessions, pc, loc>>

PagesMark(w) ==
    /\ test.phase = "got"
    /\ MarkReadRequest(w, {test.input})

PagesReturn(w) ==
    /\ test.phase \in {"none", "got", "end"}
    /\ Return(w)

PagesGoOn(w) ==
    /\ test.phase = "got"
    /\ pc[w] = "idle"
    /\ test' = [test EXCEPT !.phase = "page"]
    /\ UNCHANGED <<now, db, tx, active_sessions, pc, loc>>

NextPages ==
    \/ Tick
    \/ \E w \in {"w1"} :
         \/ PagesFill(w)
         \/ CheckInboxFetch(w, {MsgDictABC, MsgTextOnly}, MaxListed)
         \/ StoreSelect(w) \/ StoreInsert(w) \/ StoreCommit(w)
         \/ ListRows(w) \/ ListTotal(w) \/ ListUnread(w)
         \/ PagesSetup(w) \/ PagesCall(w) \/ PagesObserve(w)
         \/ PagesMark(w) \/ PagesReturn(w) \/ PagesGoOn(w)

SpecPages == Init /\ [][NextPages]_vars

\* ---------------------------------------------------------------- export
\* Exports, in every format, of a session that check-inbox calls have filled with
\* gateway messages, one of them with a preview of two lines, and whose messages
\* mark-read calls have read.
NextExport ==
    \/ Tick
    \/ \E w \in {"w1"} :
         \/ CheckInboxRequest(w, OneStranger)
         \/ CheckInboxFetch(w, {MsgDictABC, MsgTwoLines}, MaxRows)
         \/ StoreSelect(w) \/ StoreInsert(w) \/ StoreCommit(w)
         \/ ListRows(w) \/ ListTotal(w) \/ ListUnread(w)
         \/ MarkReadRequest(w, OneStranger)
         \/ ExportRequest(w, OneStranger \cup Incomplete, Formats)
         \/ Return(w)

SpecExport == Init /\ [][NextExport]_vars

\* ---------------------------------------------------------------- global stats
\* Global statistics asked for by one worker while the requests of another
\* generate sessions and ingest and read the messages of a session that has no row;
\* and the estimate of line 2587
\* computed for message counts around its allowance of 100.
TotalsAround == {100, 101, 102}
UnreadsAround == {0, 1}

EstimateDeleted ==
    /\ test.phase = "none"
    /\ \E total \in TotalsAround, unread \in UnreadsAround :
         test' = [phase |-> "estimate", total |-> total, unread |-> unread,
                  deleted |-> DeletedEstimate(total, unread)]
    /\ UNCHANGED <<now, db, tx, active_sessions, pc, loc>>

NextStats ==
    \/ Tick
    \/ EstimateDeleted
    \/ \E w \in {"w1"} :
         \/ GenerateRequest(w, {}) \/ GenerateTry(w, {<<"u", "@", "g">>})
         \/ GenerateCreate(w) \/ GenerateInstall(w)
         \/ CheckInboxRequest(w, OneStranger)
         \/ CheckInboxFetch(w, {MsgDictABC}, MaxRows)
         \/ StoreSelect(w) \/ StoreInsert(w) \/ StoreCommit(w)
         \/ ListRows(w) \/ ListTotal(w) \/ ListUnread(w)
         \/ MarkReadRequest(w, OneStranger)
         \/ Return(w)
    \/ \E w \in {"w2"} :
         \/ GetStatsRequest(w) \/ GetStatsUnread(w) \/ GetStatsActive(w)
         \/ Return(w)

SpecStats == Init /\ [][NextStats]_vars

\* ---------------------------------------------------------------- listing order
\* Listings of one session by two workers, while check-inbox calls ingest batches
\* of two messages, in either order, and delete-all-messages calls empty the
\* session; the clock stands still, so that all messages arrive at one time.
NextOrder ==
    \E w \in Workers :
        \/ CheckInboxRequest(w, OneStranger)
        \/ CheckInboxFetch(w, {MsgDictABC, MsgTextOnly}, MaxRows)
        \/ StoreSelect(w) \/ StoreInsert(w) \/ StoreCommit(w)
        \/ ListRows(w) \/ ListTotal(w) \/ ListUnread(w)
        \/ GetMessagesRequest(w, OneStranger, {-1, 1}, {0, 1})
        \/ DeleteAllMessagesRequest(w, OneStranger)
        \/ Return(w)

SpecOrder == Init /\ [][NextOrder]_vars

\* ---------------------------------------------------------------- flag and handle
\* Generate and reactivate requests that overlap with delete-session and
\* deactivate-all requests on the sessions the store knows.
NextFlag ==
    \E w \in Workers :
         \/ GenerateRequest(w, {}) \/ GenerateTry(w, {}) \/ GenerateCreate(w)
         \/ GenerateInstall(w)
         \/ DeleteSessionRequest(w, KnownSessions)
         \/ DeleteSessionLookup(w) \/ DeleteSessionDelete(w)
         \/ DeactivateUpdate(w) \/ DeactivateTest(w) \/ DeactivateDel(w)
         \/ ClearAllRequest(w) \/ ClearAllLoop(w) \/ ClearAllUpdate(w)
         \/ ActivateRequest(w, KnownSessions) \/ ActivateCreate(w) \/ ActivateInstall(w)
         \/ Return(w)

SpecFlag == Init /\ [][NextFlag]_vars

\* ---------------------------------------------------------------- scope
\* Mark-read and delete-message requests for two sessions that check-inbox calls
\* have filled, with the id of any stored message: one of the session named in the
\* request, or one of the other session.
NextScope ==
    \E w \in {"w1"} :
        \/ CheckInboxRequest(w, Strangers)
        \/ CheckInboxFetch(w, {MsgDictABC, MsgTextOnly}, MaxRows)
        \/ StoreSelect(w) \/ StoreInsert(w) \/ StoreCommit(w)
        \/ ListRows(w) \/ ListTotal(w) \/ ListUnread(w)
        \/ MarkReadRequest(w, Strangers)
        \/ DeleteMessageRequest(w, Strangers)
        \/ Return(w)

SpecScope == Init /\ [][NextScope]_vars

\* ---------------------------------------------------------------- properties
\* what the connection of worker w reads after the step
ViewNext(w) == IF tx'.owner = w THEN tx'.messages ELSE db'.messages

\* the step is one of worker w
StepOf(w) == pc'[w] # pc[w] \/ loc'[w] # loc[w]

\* the rows of a table with the given sender, subject, preview and arrival time
RowsLike(messages, f, t) ==
    {i \in 1..Len(messages) :
        /\ messages[i].sender = f.sender
        /\ messages[i].subject = f.subject
        /\ messages[i].body_preview = f.body_preview
        /\ messages[i].received_at = t}

NoTwoRowsAlike(messages) ==
    \A i, j \in 1..Len(messages) :
        (/\ messages[i].sender = messages[j].sender
         /\ messages[i].subject = messages[j].subject
         /\ messages[i].body_preview = messages[j].body_preview
         /\ messages[i].received_at = messages[j].received_at) => i = j

\* store_messages_in_db has just dealt with the message at the head of the batch of
\* worker w, stamped t, and no storage error made it skip the message
Ingested(w, t) ==
    /\ loc'[w].messages = Tail(loc[w].messages)
    /\ \/ pc[w] = "sm_select" /\ t = now
       \/ /\ pc[w] = "sm_insert" /\ t = loc[w].row.received_at
          /\ Head(loc[w].messages).bindable
          /\ CanWrite(w)

\* C2: raw messages with identical sender, subject and preview that are ingested
\* with the same timestamp, in one batch or in two calls, make exactly one row: the
\* store never holds two rows with the same sender, subject, preview and arrival
\* time, and once a message was ingested (without a storage error) the ingesting
\* connection sees exactly one row with its fields and timestamp.
C2_OneRowPerTimestamp ==
    /\ [](NoTwoRowsAlike(db.messages) /\ NoTwoRowsAlike(tx.messages))
    /\ [][\A w \in Workers, t \in 0..MaxTime :
            (pc[w] \in {"sm_select", "sm_insert"} /\ Ingested(w, t))
                => Cardinality(RowsLike(ViewNext(w),
                                        ExtractFields(Head(loc[w].messages)), t)) = 1]_vars

\* a second raw message with the fields of a stored row is ingested in the clock
\* tick in which that row arrived
C2_Witness ==
    \E w \in Workers :
        /\ pc[w] = "sm_select"
        /\ RowsLike(View(w).messages, ExtractFields(Head(loc[w].messages)), now) # {}

\* C3: in every reachable state, under any interleaving of concurrent ingest calls,
\* no two rows of the messages table (committed, or in the open transaction) share
\* a message_id.
UniqueIds(messages) ==
    \A i, j \in 1..Len(messages) :
        messages[i].message_id = messages[j].message_id => i = j

C3_UniqueMessageIds == UniqueIds(db.messages) /\ UniqueIds(tx.messages)

\* two concurrent calls found the identifier missing; one has committed its row and
\* the other is about to INSERT the same identifier
C3_Witness ==
    \E w \in Workers :
        /\ pc[w] = "sm_insert"
        /\ Head(loc[w].messages).bindable
        /\ tx.owner = NoWorker
        /\ MessageExists(db.messages, loc[w].row.message_id)

\* C4: ingestion never changes the read flag of an existing row: over every step of
\* store_messages_in_db each row the connection saw before the step is still there
\* with the same is_read, in its own view and in the committed store; so a message
\* marked read stays read when a batch reproduces it.
KeepsRead(before, after) ==
    \A r \in Rows(before) :
        \E r2 \in Rows(after) : r2.message_id = r.message_id /\ r2.is_read = r.is_read

C4_IngestKeepsRead ==
    [][\A w \in Workers :
         (pc[w] \in {"sm_select", "sm_insert", "sm_commit"} /\ StepOf(w))
            => /\ KeepsRead(View(w).messages, ViewNext(w))
               /\ KeepsRead(db.messages, db'.messages)]_vars

\* a batch reproduces, identifier included, a stored message that was marked read
C4_Witness ==
    \E w \in Workers :
        /\ pc[w] \in {"sm_select", "sm_insert"}
        /\ LET f == ExtractFields(Head(loc[w].messages))
           IN  \E r \in Rows(db.messages) :
                  /\ r.is_read = 1
                  /\ r.message_id = MessageId(f.sender, f.subject, f.body_preview, now)

\* C1: ingesting the same raw message batch twice for one session, at any two
\* ingestion times, leaves the session with the message count it had after the
\* first ingestion.
C1_SameCountTwice == test.phase = "got2" => test.twice = test.once

\* C5: once delete-session for session S has answered, the store holds no message
\* with session_id S, and the per-session statistics the client asks for next
\* report zero total and zero unread messages.
C5_DeleteThenZero ==
    /\ (test.phase \in {"deleted", "stats", "reported"} /\ test.deleted.kind = "ok")
          => \A i \in 1..Len(db.messages) :
                db.messages[i].session_id # test.input.session_id
    /\ test.phase = "reported"
          => /\ test.stats.kind = "ok"
             /\ test.stats.total_messages = 0
             /\ test.stats.unread_messages = 0

\* the deleted session had messages, the statistics were asked for
C5_Witness == test.phase = "reported" /\ test.had > 0 /\ test.deleted.kind = "ok"

\* C6: deactivate-all sets is_active to 0 on every session row and leaves no handle
\* in the registry, and none of its steps changes the messages table (rows and read
\* flags), whereas the per-session delete removes the messages of its session and
\* only those.
C6_DeactivateAllKeepsMessages ==
    /\ [](\A w \in Workers :
            (pc[w] = "done" /\ loc[w].op = "clear_all" /\ loc[w].resp.kind = "ok")
               => /\ active_sessions = <<>>
                  /\ \A i \in 1..Len(db.sessions) : db.sessions[i].is_active = 0)
    /\ [][\A w \in Workers :
            /\ (loc[w].op = "clear_all" /\ StepOf(w)) => db'.messages = db.messages
            /\ (pc[w] = "ds_delete" /\ pc'[w] = "done" /\ loc'[w].resp.kind = "ok")
                  => /\ \A r \in Rows(db'.messages) : r.session_id # loc[w].session_id
                     /\ \A r \in Rows(db.messages) :
                           r.session_id # loc[w].session_id => r \in Rows(db'.messages)]_vars

\* deactivate-all has answered; it found two live handles, and the store holds
\* messages, one of them read
C6_Witness ==
    \E w \in Workers :
        /\ pc[w] = "done" /\ loc[w].op = "clear_all" /\ loc[w].resp.kind = "ok"
        /\ Cardinality(loc[w].keys) = 2
        /\ \E r \in Rows(db.messages) : r.is_read = 1
        /\ \E r \in Rows(db.messages) : r.is_read = 0

\* the result is the original with "<prefix>_" put before its local part, the
\* original being split at its first "@"
Spliced(result, prefix, original) ==
    \E k \in 1..Len(original) :
        /\ original[k] = "@"
        /\ \A j \in 1..(k - 1) : original[j] # "@"
        /\ result = prefix \o <<"_">> \o SubSeq(original, 1, k - 1) \o <<"@">>
                       \o SubSeq(original, k + 1, Len(original))

HasAt(email) == \E k \in 1..Len(email) : email[k] = "@"

\* generate-email has answered worker w's request with a result
Generated(w) == pc[w] = "done" /\ loc[w].op = "generate" /\ loc[w].resp.kind = "ok"

\* C7 as stated: when every external generation variant has failed, the result
\* returned to the caller is flagged as a fallback.
C7_AllFailedFlagged ==
    \A w \in Workers :
        (Generated(w) /\ loc[w].i = Len(Strategies) + 1) => loc[w].resp.fallback

\* C8 as stated: on every path by which an address (one with an "@") is obtained,
\* the last-resort fallback included, a supplied prefix P makes the returned
\* address P_<local>@<domain> of the obtained one.
C8_PrefixOnEveryPath ==
    \A w \in Workers :
        (Generated(w) /\ loc[w].prefix # <<>> /\ HasAt(loc[w].obtained))
            => Spliced(loc[w].resp.email, loc[w].prefix, loc[w].obtained)

\* C8: when an external variant or the local fallback has supplied the address and
\* it holds an "@", a supplied non-empty prefix P makes the returned address
\* P_<local>@<domain> of the obtained one, and custom is true; an obtained address
\* without "@" is returned as it is; the last-resort fallback returns its
\* temp_...@fallback.tmp address without the prefix, with custom false.
C8_PrefixUnlessLastResort ==
    \A w \in Workers :
        (Generated(w) /\ loc[w].prefix # <<>>)
            => IF loc[w].resp.fallback
               THEN /\ loc[w].resp.email = loc[w].obtained
                    /\ Head(loc[w].resp.email) = "temp_"
                    /\ ~loc[w].resp.custom
               ELSE IF HasAt(loc[w].obtained)
                    THEN /\ Spliced(loc[w].resp.email, loc[w].prefix, loc[w].obtained)
                         /\ loc[w].resp.custom
                    ELSE loc[w].resp.email = loc[w].obtained

\* every variant failed, a prefix was supplied, and the local fallback address came
\* back with the prefix in front of its local part
C8_Witness ==
    \E w \in Workers :
        /\ Generated(w) /\ loc[w].i = Len(Strategies) + 1
        /\ loc[w].prefix = <<"p">>
        /\ loc[w].resp.email = <<"p", "_", "r", "@", "tempmail.tmp">>

\* C9: when the client has read a session page by page (fixed page size, offsets 0,
\* limit, 2*limit, ..., nothing ingested or deleted meanwhile), the pages put
\* together hold each of the session's N stored messages exactly once, in
\* descending order of arrival.
C9_PagesCoverOnce ==
    test.phase = "end"
        => LET own == {i \in 1..Len(db.messages) :
                          db.messages[i].session_id = test.input.session_id}
           IN  /\ Len(test.pages) = Cardinality(own)
               /\ \A i \in own :
                     Cardinality({k \in 1..Len(test.pages) :
                                     test.pages[k].id = db.messages[i].message_id}) = 1
               /\ \A k \in 1..(Len(test.pages) - 1) :
                     test.pages[k].time >= test.pages[k + 1].time

\* three messages read in pages of two: two of them arrived together, one at
\* another time
C9_Witness ==
    /\ test.phase = "end"
    /\ test.limit = 2
    /\ Len(test.pages) = 3
    /\ test.pages[1].time > test.pages[3].time
    /\ test.pages[2].time = test.pages[3].time

\* C10: every listing response has has_more equal to (total > offset + limit),
\* total being the number of stored messages of the session, whatever the limit,
\* the offset and the unread-only setting.
C10_HasMore ==
    \A w \in Workers :
        (pc[w] = "done" /\ loc[w].op = "get_messages" /\ loc[w].resp.kind = "ok")
            => LET total == Cardinality({i \in 1..Len(db.messages) :
                                db.messages[i].session_id = loc[w].session_id})
               IN  /\ loc[w].resp.total = total
                   /\ loc[w].resp.has_more = (total > loc[w].offset + loc[w].limit)

\* an unread-only listing from an offset whose page ends exactly at the last of the
\* session's messages
C10_Witness ==
    \E w \in Workers :
        /\ pc[w] = "done" /\ loc[w].op = "get_messages" /\ loc[w].resp.kind = "ok"
        /\ loc[w].unread_only
        /\ loc[w].offset > 0
        /\ loc[w].resp.total = loc[w].offset + loc[w].limit

\* the session rows a purge asked for at time t has to remove
Expired(sessions, t) ==
    {r \in Rows(sessions) : r.is_active = 0 /\ r.last_activity < t - Retention}

\* C11: purge-inactive takes the retention threshold from the time of the request,
\* and its commit removes exactly the session rows that are flagged inactive and whose
\* last_activity is older than the threshold, with all their messages, and answers
\* with the number of rows removed; rows flagged active or not older than the
\* threshold stay, and so do their messages.
C11_PurgeExactlyExpired ==
    [][\A w \in Workers :
         /\ (pc[w] = "idle" /\ pc'[w] = "pi_loop") => loc'[w].cutoff + Retention = now
         /\ (pc[w] = "pi_loop" /\ pc'[w] = "done" /\ loc'[w].resp.kind = "ok")
               => LET gone == Expired(db.sessions, loc[w].cutoff + Retention)
                      ids == {r.session_id : r \in gone}
                  IN  /\ Rows(db'.sessions) = Rows(db.sessions) \ gone
                      /\ Rows(db'.messages) =
                            {m \in Rows(db.messages) : m.session_id \notin ids}
                      /\ Len(db'.messages) = Cardinality(Rows(db'.messages))
                      /\ loc'[w].resp.deleted_count = Cardinality(gone)]_vars

\* a purge is about to commit: it has deleted one old inactive session and its
\* message, and keeps an inactive session that is not old enough and a message
C11_Witness ==
    \E w \in Workers :
        /\ pc[w] = "pi_loop" /\ loc[w].i > Len(loc[w].inactive_sessions)
        /\ Len(loc[w].inactive_sessions) = 1
        /\ Len(tx.messages) < Len(db.messages)
        /\ tx.messages # <<>>
        /\ \E r \in Rows(tx.sessions) : r.is_active = 0

\* the session rows of the store with the given session id
RowsOf(sessions, session_id) == {r \in Rows(sessions) : r.session_id = session_id}

\* C12: reactivate on a session id that has a row in the store, whatever the row's
\* is_active flag, installs a live handle for the id and answers with the row's
\* email and the same id; on an id without a row it answers not-found and changes
\* neither the store nor the registry.
C12_ReactivateKnownOnly ==
    /\ [](\A w \in Workers :
            (pc[w] = "done" /\ loc[w].op = "reactivate" /\ loc[w].resp.kind = "ok")
               => /\ loc[w].session_id \in DOMAIN active_sessions
                  /\ active_sessions[loc[w].session_id].session_id = loc[w].session_id
                  /\ active_sessions[loc[w].session_id].is_active
                  /\ loc[w].resp.session_id = loc[w].session_id
                  /\ \A r \in RowsOf(db.sessions, loc[w].session_id) :
                        loc[w].resp.email = r.email)
    /\ [][\A w \in Workers :
            (pc[w] = "idle" /\ loc'[w].op = "reactivate" /\ loc'[w].session_id # <<>>)
               => IF RowsOf(db.sessions, loc'[w].session_id) # {}
                  THEN /\ pc'[w] = "ac_create"
                       /\ \A r \in RowsOf(db.sessions, loc'[w].session_id) :
                             loc'[w].email = r.email
                  ELSE /\ pc'[w] = "done"
                       /\ loc'[w].resp.kind = "fail"
                       /\ loc'[w].resp.error = "Session not found"
                       /\ db' = db /\ active_sessions' = active_sessions]_vars

\* a session whose row was flagged inactive has been reactivated
C12_Witness ==
    \E w \in Workers :
        /\ pc[w] = "done" /\ loc[w].op = "reactivate" /\ loc[w].resp.kind = "ok"
        /\ loc[w].found[1].is_active = 0
        /\ loc[w].session_id \in DOMAIN active_sessions

\* reactivate has answered not-found for an id that had a row once
C12_WitnessNotFound ==
    \E w \in Workers :
        /\ pc[w] = "done" /\ loc[w].op = "reactivate" /\ loc[w].resp.kind = "fail"
        /\ now > 0 /\ db.sessions # <<>>

\* C13: delete-session on S keeps S's row in the store, changing nothing of it but
\* is_active, and when it has answered the row is flagged inactive and the registry
\* has no handle for S, whether the call found a live handle for S or not.
C13_DeleteSessionDeactivates ==
    /\ [](\A w \in Workers :
            (pc[w] = "done" /\ loc[w].op = "delete_session" /\ loc[w].resp.kind = "ok")
               => /\ loc[w].session_id \notin DOMAIN active_sessions
                  /\ \A r \in RowsOf(db.sessions, loc[w].session_id) : r.is_active = 0)
    /\ [][\A w \in Workers :
            (loc[w].op = "delete_session" /\ StepOf(w))
               => \A r \in RowsOf(db.sessions, loc[w].session_id) :
                     \/ r \in RowsOf(db'.sessions, loc[w].session_id)
                     \/ [r EXCEPT !.is_active = 0]
                            \in RowsOf(db'.sessions, loc[w].session_id)]_vars

\* delete-session has answered for a session that had a live handle; its row is
\* still in the store
C13_Witness ==
    \E w \in Workers :
        /\ pc[w] = "done" /\ loc[w].op = "delete_session" /\ loc[w].resp.kind = "ok"
        /\ loc[w].member
        /\ RowsOf(db.sessions, loc[w].session_id) # {}

\* ... and for a session that had a row but no live handle
C13_WitnessNoHandle ==
    \E w \in Workers :
        /\ pc[w] = "done" /\ loc[w].op = "delete_session" /\ loc[w].resp.kind = "ok"
        /\ ~loc[w].member
        /\ RowsOf(db.sessions, loc[w].session_id) # {}

\* C14 as stated, at the states in which no request is being handled: every session
\* with a live handle in the registry has a row in the store.
C14_HandlesHaveRows ==
    (\A w \in Workers : pc[w] = "idle")
        => \A session_id \in DOMAIN active_sessions :
              RowsOf(db.sessions, session_id) # {}

\* C15 as stated: no request ends in an unhandled KeyError, that is, no lookup or
\* del that follows a membership test on the registry finds the handle missing.
C15_NoKeyError ==
    \A w \in Workers :
        pc[w] = "done" => ~(loc[w].resp.kind = "crash" /\ loc[w].resp.error = "KeyError")

\* C16 as stated: every stored message's session_id is the session_id of a row of
\* the sessions table.
C16_NoOrphanMessages ==
    \A m \in Rows(db.messages) : RowsOf(db.sessions, m.session_id) # {}

\* worker w is inside store_messages_in_db, before the commit of line 250
Ingesting(w) == pc[w] \in {"sm_select", "sm_insert", "sm_commit"}

\* the identifiers of the rows the ingest call of worker w has inserted
NewIds(w) == {x.message_id : x \in loc[w].inserted}

StoredIds(messages) == {r.message_id : r \in Rows(messages)}

\* C17: the rows one ingest call inserts are committed as one unit after the loop.
\* Before the commit the committed store, which is what any other connection reads,
\* holds none of them, and a full listing made meanwhile shows none; the commit
\* step adds all of them at once and nothing else; every other step of the call
\* leaves the committed store as it is, and a call that ends before the commit
\* leaves no open transaction behind, so that none of its rows is ever stored.
C17_BatchCommittedAsUnit ==
    /\ [](\A w \in Workers :
            Ingesting(w) => NewIds(w) \cap StoredIds(db.messages) = {})
    /\ [][\A w \in Workers :
            /\ (Ingesting(w) /\ StepOf(w))
                  => IF pc'[w] = "lm_rows"
                     THEN /\ NewIds(w) \subseteq StoredIds(db'.messages)
                          /\ Len(db'.messages) = Len(db.messages) + Cardinality(NewIds(w))
                          /\ SubSeq(db'.messages, 1, Len(db.messages)) = db.messages
                     ELSE /\ db' = db
                          /\ pc'[w] = "done" => tx'.owner # w
            /\ (pc[w] = "lm_rows" /\ loc[w].op = "get_messages" /\ StepOf(w))
                  => \A v \in Workers :
                        Ingesting(v) =>
                           \A k \in 1..Len(loc'[w].listing) :
                              loc'[w].listing[k].id \notin NewIds(v)]_vars

\* a session was listed while an ingest call had inserted two rows and not yet
\* committed them
C17_Witness ==
    \E w, v \in Workers :
        /\ Ingesting(w) /\ Cardinality(NewIds(w)) = 2
        /\ pc[v] = "lm_total" /\ loc[v].op = "get_messages"
        /\ loc[v].session_id = loc[w].session_id

\* an ingest call was ended before its commit; the store is empty
C17_WitnessAbort ==
    \E w \in Workers :
        /\ pc[w] = "done" /\ loc[w].resp.kind = "crash" /\ loc[w].resp.error = "aborted"
        /\ tx.owner = NoWorker
        /\ db.messages = <<>>

\* C18: a message of a batch whose processing fails (a value that cannot be stored,
\* a storage error on its INSERT) is skipped and the loop goes on: when the call
\* commits, every message of the batch that did not fail itself has a row with its
\* sender, subject and preview in the store.
C18_FailureSkipsOneMessage ==
    [][\A w \in Workers :
         (pc[w] = "sm_commit" /\ pc'[w] = "lm_rows")
            => \A k \in 1..Len(loc[w].batch) :
                  k \notin loc[w].failed
                     => LET f == ExtractFields(loc[w].batch[k])
                        IN  \E r \in Rows(db'.messages) :
                               /\ r.sender = f.sender
                               /\ r.subject = f.subject
                               /\ r.body_preview = f.body_preview]_vars

\* the first message of a batch failed and the second was inserted
C18_Witness ==
    \E w \in Workers :
        /\ pc[w] = "sm_commit"
        /\ 1 \in loc[w].failed
        /\ \E x \in loc[w].inserted : x.position = 2

\* C19: get_inbox makes exactly one request to the gateway per call, and when the
\* request fails (non-200 status, transport failure) it returns an empty messages
\* list with status "error": nothing is raised (the handler goes on) and the store
\* is not changed.
C19_FetchFailureIsAResult ==
    /\ [](\A w \in Workers :
            loc[w].op = "check_inbox"
               => loc[w].posts = IF pc[w] \in {"ci_lookup", "ci_update", "ci_fetch"}
                                 THEN 0 ELSE 1)
    /\ [][\A w \in Workers :
            (pc[w] = "ci_fetch" /\ StepOf(w))
               => /\ loc'[w].posts = loc[w].posts + 1
                  /\ db' = db /\ tx' = tx
                  /\ loc'[w].raw_data.status = "error"
                        => /\ loc'[w].raw_data.messages = "empty"
                           /\ pc'[w] = "lm_rows"
                           /\ loc'[w].resp.kind = "none"]_vars

\* a fetch has failed while the store held a message; the handler goes on
C19_Witness ==
    \E w \in Workers :
        /\ pc[w] = "lm_rows" /\ loc[w].op = "check_inbox"
        /\ loc[w].raw_data = RawData("empty", "error")
        /\ loc[w].posts = 1
        /\ db.messages # <<>>

\* C20 as stated: a check-inbox whose fetch failed never answers with the status of
\* a check-inbox whose fetch succeeded with zero messages.
C20_FailureHasOwnStatus ==
    \A w, v \in Workers :
        (/\ pc[w] = "done" /\ loc[w].op = "check_inbox" /\ loc[w].resp.kind = "ok"
         /\ pc[v] = "done" /\ loc[v].op = "check_inbox" /\ loc[v].resp.kind = "ok"
         /\ loc[w].raw_data = RawData("empty", "error")
         /\ loc[v].raw_data = RawData("empty", "none"))
            => loc[w].resp.status # loc[v].resp.status

\* C21: a check-inbox for a session id without a live handle goes on to the fetch
\* without an error and without touching the sessions table or the registry, and
\* no later step of the request writes the sessions table; a check-inbox for a
\* session with a live handle stamps the handle with the time of the check and
\* writes that time, and nothing else, to last_activity of the session's row.
C21_TouchOnlyLiveHandles ==
    [][\A w \in Workers :
         /\ (/\ pc[w] = "idle" /\ loc'[w].op = "check_inbox"
             /\ loc'[w].session_id \notin DOMAIN active_sessions)
               => /\ pc'[w] = "ci_fetch"
                  /\ db' = db /\ tx' = tx /\ active_sessions' = active_sessions
         /\ (pc[w] = "ci_lookup" /\ StepOf(w))
               => /\ pc'[w] = "ci_update"
                  /\ loc'[w].self.last_check = now /\ loc'[w].params = now
                  /\ db' = db
         /\ (pc[w] = "ci_update" /\ StepOf(w))
               => /\ pc'[w] = "ci_fetch"
                  /\ db'.messages = db.messages
                  /\ Len(db'.sessions) = Len(db.sessions)
                  /\ \A i \in 1..Len(db.sessions) :
                       db'.sessions[i] =
                          IF db.sessions[i].session_id = loc[w].session_id
                          THEN [db.sessions[i] EXCEPT !.last_activity = loc[w].params]
                          ELSE db.sessions[i]
         /\ (StepOf(w) /\ loc[w].op = "check_inbox" /\ pc[w] # "ci_update")
               => /\ db'.sessions = db.sessions
                  /\ loc'[w].resp.kind # "crash"]_vars

\* a check-inbox for a session whose handle was removed has reached the fetch,
\* after the clock has passed the session's last_activity
C21_Witness ==
    \E w \in Workers :
        /\ pc[w] = "ci_fetch" /\ loc[w].op = "check_inbox"
        /\ loc[w].session_id \notin DOMAIN active_sessions
        /\ \E r \in Rows(db.sessions) :
             r.session_id = loc[w].session_id /\ r.last_activity < now

\* a check-inbox for a session with a live handle has written a later time
C21_WitnessTouched ==
    \E w \in Workers :
        /\ pc[w] = "ci_fetch" /\ loc[w].op = "check_inbox"
        /\ loc[w].session_id \in DOMAIN active_sessions
        /\ \E r \in Rows(db.sessions) :
             /\ r.session_id = loc[w].session_id
             /\ r.last_activity = now /\ r.created_at < now

\* C22 as stated: no step lowers the last_activity of a session row, whatever the
\* interleaving of creates, reactivations and touches of the session.
C22_LastActivityNeverDecreases ==
    [][\A r \in Rows(db.sessions) : \A q \in Rows(db'.sessions) :
          q.session_id = r.session_id => q.last_activity >= r.last_activity]_vars

\* the requests that may remove stored messages
Removing == {"delete_message", "delete_all_messages", "delete_session", "purge",
             "clear_database"}

\* C23: a stored message leaves the messages table only in a step of delete-message,
\* delete-all-messages, delete-session, purge-inactive or clear-store: no step of
\* ingestion, mark-read, mark-all-read, touch, reactivate, generate or
\* deactivate-all removes one.
C23_MessagesOnlyLeaveByDelete ==
    [][\A m \in Rows(db.messages) :
          (\A r \in Rows(db'.messages) :
               ~(r.message_id = m.message_id /\ r.session_id = m.session_id))
             => \E w \in Workers :
                   /\ StepOf(w)
                   /\ \/ loc[w].op \in Removing
                      \/ pc[w] = "idle" /\ loc'[w].op \in Removing]_vars

\* a session that was reactivated after all its messages were flagged read still
\* has its mail
C23_Witness ==
    \E w \in Workers :
        /\ pc[w] = "done" /\ loc[w].op = "reactivate" /\ loc[w].resp.kind = "ok"
        /\ \E m \in Rows(db.messages) :
             m.session_id = loc[w].session_id /\ m.is_read = 1

\* all sessions were deactivated and a stored message is still there
C23_WitnessDeactivateAll ==
    \E w \in Workers :
        /\ pc[w] = "done" /\ loc[w].op = "clear_all" /\ loc[w].resp.kind = "ok"
        /\ loc[w].keys # {}
        /\ db.messages # <<>>

\* a mark-all-read has flagged the two messages of a session
C23_WitnessMarkAll ==
    \E w \in Workers :
        /\ pc[w] = "done" /\ loc[w].op = "mark_all_read"
        /\ Cardinality({m \in Rows(db.messages) :
                           m.session_id = loc[w].session_id /\ m.is_read = 1}) = 2

\* the requests whose body must name a message
ByMessage == {"get_message", "mark_read", "delete_message"}

\* the request in the locals l lacks a field its handler requires
Lacking(l) ==
    \/ l.op \notin {"none", "generate", "clear_all", "purge", "clear_database"}
          /\ l.session_id = <<>>
    \/ l.op \in ByMessage /\ l.message_id = <<>>
    \/ l.op = "check_inbox" /\ l.email = <<>>

\* the store d has no session, or no message of the session, with the ids in l
UnknownIn(d, l) ==
    \/ l.session_id \notin SessionIds(d.sessions)
    \/ l.op \in ByMessage /\ SelectMessage(d.messages, l.session_id, l.message_id) = <<>>

\* C24 as stated: a get-message, mark-read, delete-message, reactivate or
\* per-session stats request with an id the store does not know answers with a
\* failure (success false and an error) and leaves the store unchanged.
C24_UnknownIdIsAFailure ==
    [][\A w \in Workers :
         (/\ StepOf(w) /\ pc'[w] = "done"
          /\ loc'[w].op \in ByMessage \cup {"reactivate", "stats"}
          /\ ~Lacking(loc'[w])
          /\ UnknownIn(db, loc'[w]))
            => /\ loc'[w].resp.kind = "fail"
               /\ db' = db]_vars

\* C25: a request that lacks a required field is answered at once with a failure:
\* the store (so every last_activity), the open transaction and the registry are
\* unchanged and the gateway is not called.
C25_MissingFieldFailsFirst ==
    [][\A w \in Workers :
         (pc[w] = "idle" /\ StepOf(w) /\ Lacking(loc'[w]))
            => /\ pc'[w] = "done"
               /\ loc'[w].resp.kind = "fail"
               /\ db' = db /\ tx' = tx /\ active_sessions' = active_sessions
               /\ loc'[w].posts = 0]_vars

\* a delete-session without a session id was refused while the store held a
\* message and the registry a handle
C25_Witness ==
    \E w \in Workers :
        /\ pc[w] = "done" /\ loc[w].op = "delete_session" /\ Lacking(loc[w])
        /\ loc[w].resp = Failure("Missing session ID")
        /\ db.messages # <<>> /\ DOMAIN active_sessions # {}

\* a check-inbox without an email and a mark-read without a message id were refused
C25_WitnessCheckInbox ==
    \E w \in Workers :
        /\ pc[w] = "done" /\ loc[w].op = "check_inbox" /\ loc[w].email = <<>>
        /\ loc[w].session_id # <<>> /\ loc[w].resp = Failure("Missing data")

C25_WitnessMarkRead ==
    \E w \in Workers :
        /\ pc[w] = "done" /\ loc[w].op = "mark_read" /\ loc[w].message_id = <<>>
        /\ loc[w].session_id \in SessionIds(db.sessions)
        /\ loc[w].resp = Failure("Missing data")

\* C26 as stated: a storage error raised by a write of generate, mark-read,
\* delete-message, delete-session, reactivate, clear-store, purge or deactivate-all
\* never leaves the request handler: the request is answered with a failure.
C26_StoreErrorIsAFailure ==
    \A w \in Workers :
        loc[w].op \in {"generate", "mark_read", "delete_message", "delete_session",
                       "reactivate", "clear_database", "purge", "clear_all"}
           => ~(loc[w].resp.kind = "crash" /\ loc[w].resp.error = "database is locked")

\* C27 as stated: generate_email sends the variants in the order of Strategies,
\* each at most once, goes on to the next variant after a failure, stops at the
\* first variant that gave an email, and leaves the loop without an email (to
\* synthesize the local address) only after all three variants have failed.
C27_VariantsInOrderThenFallback ==
    [][\A w \in Workers :
         (pc[w] = "ge_try" /\ StepOf(w))
            => /\ loc[w].i \in 1..Len(Strategies)
               /\ pc'[w] = "ge_try" => loc'[w].i = loc[w].i + 1
               /\ pc'[w] = "ge_create"
                     => (loc'[w].email = <<>> <=> loc'[w].i = Len(Strategies) + 1)]_vars

\* C28: every generate-address and every check-inbox request that has started gets
\* its response, whatever the gateway answers to each call.
C28_RequestsComplete ==
    \A w \in Workers :
        (pc[w] \notin {"idle", "done"} /\ loc[w].op \in {"generate", "check_inbox"})
            ~> (pc[w] = "done" /\ loc[w].resp.kind # "none")

\* a generate-address was answered after all three variants had failed
C28_Witness ==
    \E w \in Workers :
        /\ pc[w] = "done" /\ loc[w].op = "generate" /\ loc[w].resp.kind = "ok"
        /\ loc[w].i = Len(Strategies) + 1

\* a check-inbox was answered after its fetch had failed
C28_WitnessCheckInbox ==
    \E w \in Workers :
        /\ pc[w] = "done" /\ loc[w].op = "check_inbox" /\ loc[w].resp.kind = "ok"
        /\ loc[w].raw_data.status = "error"

\* C29: when generate_email returns, by a gateway variant, by the local address or
\* by the handler of line 164, the sessions table has a row with the session id
\* and the email of the answer, flagged active, and the registry has a live handle
\* under that session id.
C29_GeneratedSessionIsStored ==
    [][\A w \in Workers :
         (pc[w] = "ge_install" /\ StepOf(w))
            => LET resp == loc'[w].resp
               IN  /\ pc'[w] = "done" /\ resp.kind = "ok"
                   /\ \E r \in Rows(db'.sessions) :
                        /\ r.session_id = resp.session_id
                        /\ r.email = resp.email
                        /\ r.is_active = 1
                   /\ resp.session_id \in DOMAIN active_sessions'
                   /\ active_sessions'[resp.session_id].is_active
                   /\ active_sessions'[resp.session_id].email = resp.email
                   /\ active_sessions'[resp.session_id].session_id = resp.session_id]_vars

\* generate_email has returned by the handler of line 164 while the store holds
\* another session
C29_Witness ==
    \E w \in Workers :
        /\ pc[w] = "done" /\ loc[w].op = "generate" /\ loc[w].resp.kind = "ok"
        /\ loc[w].resp.fallback
        /\ Len(db.sessions) = 2

\* ... and by a gateway variant, with a prefix
C29_WitnessVariant ==
    \E w \in Workers :
        /\ pc[w] = "done" /\ loc[w].op = "generate" /\ loc[w].resp.kind = "ok"
        /\ ~loc[w].resp.fallback /\ loc[w].prefix # <<>> /\ loc[w].i = 2

\* C30: when clear-entire-store returns, no other request running, the sessions
\* and messages tables are empty (the archives table, which no statement ever
\* inserts into, is empty throughout) and the registry holds no handle.
C30_ClearStoreEmptiesAll ==
    [][\A w \in Workers :
         (pc[w] = "cd_clear" /\ StepOf(w) /\ \A v \in Workers \ {w} : pc[v] = "idle")
            => /\ pc'[w] = "done" /\ loc'[w].resp = [kind |-> "ok", success |-> TRUE]
               /\ db' = EmptyDb /\ tx' = NoTx
               /\ active_sessions' = <<>>]_vars

\* clear-entire-store has returned
C30_Witness ==
    \E w \in Workers :
        /\ pc[w] = "done" /\ loc[w].op = "clear_database" /\ loc[w].resp.kind = "ok"
        /\ db = EmptyDb /\ active_sessions = <<>>
        /\ now = MaxTime

\* its DELETEs are committed and the registry, about to be cleared, holds handles
C30_WitnessHandles ==
    \E w \in Workers :
        /\ pc[w] = "cd_clear" /\ Cardinality(DOMAIN active_sessions) = 2

\* str.splitlines: the lines of a text, each ended by a line break
RECURSIVE SplitLines(_, _)
SplitLines(s, line) ==
    IF s = <<>> THEN (IF line = <<>> THEN <<>> ELSE <<line>>)
    ELSE IF Head(s) \in {"\n", "\r", "\r\n"} THEN <<line>> \o SplitLines(Tail(s), <<>>)
    ELSE SplitLines(Tail(s), Append(line, Head(s)))

\* the export of a session in tabular format that worker w has answered
ExportedCsv(w) ==
    /\ pc[w] = "done" /\ loc[w].op = "export" /\ loc[w].format_type = "csv"
    /\ loc[w].resp.kind = "ok"

\* C31: the tabular export of a session with N stored messages has N + 1 lines: the
\* header, and one line per message with sender, recipient, subject, preview, time
\* and Yes/No for read, separated by commas, the messages in descending order of
\* arrival.
C31_ExportHasOneLinePerMessage ==
    \A w \in Workers :
        ExportedCsv(w)
            => LET stored == SelectMessages(db.messages, loc[w].session_id, -1, 0, FALSE)
                   lines == SplitLines(loc[w].resp.content, <<>>)
               IN  /\ Len(lines) = Len(stored) + 1
                   /\ lines[1] = JoinFields(CsvHeader, ",")
                   /\ \A k \in 1..Len(stored) :
                         lines[k + 1] = JoinFields(CsvFields(stored[k]), ",")

\* the export of two messages of single-line fields, the read one arrived last:
\* three lines
C31_WitnessPlain ==
    \E w \in Workers :
        /\ ExportedCsv(w)
        /\ LET lines == SplitLines(loc[w].resp.content, <<>>)
           IN  /\ Len(lines) = 3
               /\ lines[2] = <<"a", ",", "q", "@", "g", ",", "b", ",", "c", ",", "1", ",", "Yes">>
               /\ lines[3] = <<"a", ",", "q", "@", "g", ",", "b", ",", "c", ",", "0", ",", "No">>

\* C32: each figure of the global statistics is what its SELECT finds in the store
\* when it runs: total the number of stored messages, unread the number of stored
\* unread messages, the active-session count the number of session rows flagged
\* active, whatever the registry holds; deleted is max(0, total - unread - 100).
C32_GlobalStats ==
    /\ [][\A w \in Workers :
            /\ (pc[w] = "idle" /\ pc'[w] = "gs_unread")
                  => loc'[w].total = Len(db.messages)
            /\ (pc[w] = "gs_unread" /\ pc'[w] = "gs_active")
                  => /\ loc'[w].total = loc[w].total
                     /\ loc'[w].stats.unread =
                           Len(SelectSeq(db.messages, LAMBDA r : r.is_read = 0))
            /\ (pc[w] = "gs_active" /\ pc'[w] = "done")
                  => LET stats == loc'[w].resp
                         deleted == stats.total_messages - stats.unread_messages - 100
                     IN  /\ stats.success
                         /\ stats.total_messages = loc[w].total
                         /\ stats.unread_messages = loc[w].stats.unread
                         /\ stats.active_sessions =
                               Len(SelectSeq(db.sessions, LAMBDA r : r.is_active = 1))
                         /\ stats.deleted_messages = IF deleted > 0 THEN deleted ELSE 0]_vars
    /\ [](test.phase = "estimate"
            => LET deleted == test.total - test.unread - 100
               IN  test.deleted = IF deleted > 0 THEN deleted ELSE 0)

\* statistics with a read and an unread message, answered while two session rows
\* are flagged active and the registry holds one handle; and the estimate of 102
\* messages, one unread
C32_Witness ==
    /\ \E w \in Workers :
          /\ pc[w] = "done" /\ loc[w].op = "get_stats"
          /\ loc[w].resp.total_messages = 2 /\ loc[w].resp.unread_messages = 1
          /\ loc[w].resp.active_sessions = 2
          /\ Cardinality(DOMAIN active_sessions) = 1
    /\ test.phase = "estimate" /\ test.total = 102 /\ test.unread = 1
    /\ test.deleted = 1

\* the listing that worker w has answered
Listed(w) ==
    IF pc[w] = "done" /\ loc[w].op = "get_messages" /\ loc[w].resp.kind = "ok"
    THEN loc[w].resp.messages ELSE <<>>

\* C33: the order of a listing is by arrival time, descending, and among messages
\* of one arrival time by message identifier: two messages of equal arrival time
\* that two listings of the session both hold are in the same order in both.
C33_TiesOrderedByIdentifier ==
    \A w, v \in Workers :
        /\ \A k \in 1..(Len(Listed(w)) - 1) : Listed(w)[k].time >= Listed(w)[k + 1].time
        /\ \A i, j \in 1..Len(Listed(w)), m, n \in 1..Len(Listed(v)) :
              (/\ loc[w].session_id = loc[v].session_id
               /\ Listed(w)[i].id = Listed(v)[m].id
               /\ Listed(w)[j].id = Listed(v)[n].id
               /\ Listed(w)[i].time = Listed(w)[j].time
               /\ i < j)
                  => m < n

\* C34: whenever no request is in progress, every session that has a handle in the
\* registry has a row in the store that is flagged active, however generate and
\* reactivate requests have overlapped with delete-session and deactivate-all
\* requests.
C34_LiveHandleIsFlaggedActive ==
    (\A w \in Workers : pc[w] \in {"idle", "done"})
        => \A session_id \in DOMAIN active_sessions :
              \E r \in Rows(db.sessions) : r.session_id = session_id /\ r.is_active = 1

\* C35: when store_messages_in_db looks at a raw message for session S and S holds
\* no row with the message's sender, subject, preview and arrival time, it goes on
\* to insert a row owned by S, whatever rows the other sessions hold.
C35_IngestionPerSession ==
    [][\A w \in Workers :
          (/\ pc[w] = "sm_select"
           /\ StepOf(w)
           /\ \A i \in RowsLike(View(w).messages, ExtractFields(Head(loc[w].messages)), now) :
                  View(w).messages[i].session_id # loc[w].session_id)
              => /\ pc'[w] = "sm_insert"
                 /\ loc'[w].row.session_id = loc[w].session_id]_vars

\* C36: the count a check-inbox answers with is the number of unread messages the
\* store holds for the session when the call, its ingestion committed, counts them:
\* all of them, whichever call inserted them; it is 0 when the gateway's answer has
\* no messages field.
C36_NewCountIsUnreadOfSession ==
    [][\A w \in Workers :
          (/\ loc[w].op = "check_inbox"
           /\ pc[w] # "done" /\ pc'[w] = "done"
           /\ loc'[w].resp.kind = "ok")
              => IF loc'[w].raw_data.messages = "absent"
                 THEN /\ loc'[w].resp.new_count = 0
                      /\ loc'[w].resp.status = "no_messages"
                 ELSE /\ tx.owner # w
                      /\ loc'[w].resp.status = "ok"
                      /\ loc'[w].resp.new_count =
                            Cardinality({i \in 1..Len(db.messages) :
                                /\ db.messages[i].session_id = loc[w].session_id
                                /\ db.messages[i].is_read = 0})]_vars

\* a check-inbox to which the gateway gave an empty messages list counts the
\* unread message of its session, while the store holds an unread one of another
\* session
C36_Witness ==
    \E w \in Workers :
        /\ pc[w] = "done" /\ loc[w].op = "check_inbox"
        /\ loc[w].raw_data.messages = "empty"
        /\ loc[w].resp.kind = "ok" /\ loc[w].resp.new_count = 1
        /\ \E r \in Rows(db.messages) : r.session_id # loc[w].session_id /\ r.is_read = 0

\* a gateway answer without a messages field, for a session with an unread message
C36_WitnessNoField ==
    \E w \in Workers :
        /\ pc[w] = "done" /\ loc[w].op = "check_inbox"
        /\ loc[w].raw_data.messages = "absent"
        /\ loc[w].resp.new_count = 0
        /\ \E r \in Rows(db.messages) : r.session_id = loc[w].session_id /\ r.is_read = 0

\* the message id in the locals l is that of a stored message of another session
\* than the one l names
OfAnotherSession(l) ==
    /\ l.session_id # <<>>
    /\ \E r \in Rows(db.messages) :
          r.message_id = l.message_id /\ r.session_id # l.session_id

\* C37: a mark-read or a delete-message that names a session and the id of a
\* message stored for a different session changes nothing: no row is removed, no
\* read flag is set.
C37_ScopedToTheSession ==
    [][\A w \in Workers :
          (/\ pc[w] = "idle" /\ pc'[w] # "idle"
           /\ loc'[w].op \in {"mark_read", "delete_message"}
           /\ OfAnotherSession(loc'[w]))
              => /\ pc'[w] = "done"
                 /\ db' = db /\ tx' = tx]_vars

\* a delete-message for the unread message of the other session has been answered:
\* the message is stored and unread
C37_Witness ==
    \E w \in Workers :
        /\ pc[w] = "done" /\ loc[w].op = "delete_message"
        /\ loc[w].resp.kind = "ok"
        /\ OfAnotherSession(loc[w])
        /\ \E r \in Rows(db.messages) : r.message_id = loc[w].message_id /\ r.is_read = 0

\* the same for a mark-read
C37_WitnessMarkRead ==
    \E w \in Workers :
        /\ pc[w] = "done" /\ loc[w].op = "mark_read"
        /\ loc[w].resp.kind = "ok"
        /\ OfAnotherSession(loc[w])
        /\ \E r \in Rows(db.messages) : r.message_id = loc[w].message_id /\ r.is_read = 0

\* C38: no step changes the created_at of a session row that stays in the store;
\* it is the value per-session stats read from the row.
C38_CreatedAtIsFixed ==
    [][\A r \in Rows(db.sessions), n \in Rows(db'.sessions) :
          n.session_id = r.session_id => n.created_at = r.created_at]_vars

\* C39: when a listing with a positive limit has been answered and the store has
\* not been written since, has_more tells whether the listing of the same session
\* with the same limit and the same unread-only setting at offset + limit holds a
\* message.
C39_HasMoreTellsNextPage ==
    \A w \in Workers :
        (pc[w] = "done" /\ loc[w].op = "get_messages" /\ loc[w].resp.kind = "ok"
         /\ loc[w].limit > 0)
            => loc[w].resp.has_more =
                  (SelectMessages(db.messages, loc[w].session_id, loc[w].limit,
                                  loc[w].offset + loc[w].limit, loc[w].unread_only) # <<>>)

\* the same for the listings that are not restricted to unread messages
C39_HasMoreOfFullListing ==
    \A w \in Workers :
        (pc[w] = "done" /\ loc[w].op = "get_messages" /\ loc[w].resp.kind = "ok"
         /\ ~loc[w].unread_only /\ loc[w].limit > 0)
            => loc[w].resp.has_more =
                  (SelectMessages(db.messages, loc[w].session_id, loc[w].limit,
                                  loc[w].offset + loc[w].limit, FALSE) # <<>>)
====
